---- MODULE Spec2Model ----
(***************************************************************************)
(* A model of the TypeScript port of kati (a GNU make clone):              *)
(*   - the dependency builder (src-ts/dep.ts),                             *)
(*   - the executor (src-ts/exec.ts) with the command evaluator            *)
(*     (src-ts/var.ts),                                                    *)
(*   - the statement evaluator (src-ts/core/ast.ts, src-ts/var.ts).        *)
(*                                                                         *)
(* Strings of the program (symbols, commands, variable values) are         *)
(* sequences of one-character strings, so that prefixes, suffixes, '%'     *)
(* patterns and trimming are computed as the code computes them.           *)
(* Positions are 1-based; a search that fails yields 0 where the code      *)
(* yields -1.                                                              *)
(***************************************************************************)
EXTENDS Integers, Sequences, FiniteSets, TLC

(***************************************************************************)
(* Bounds of the model.                                                    *)
(***************************************************************************)
\* Timestamps of the files present before the build are 1..MaxTs.
MaxTs == 2

(***************************************************************************)
(* Program constants.                                                      *)
(***************************************************************************)
kNotExist == -2
kProcessing == -1
\* RuleMerger.primary_rule === null
NoRule == 0

(***************************************************************************)
(* utils/strutil.ts                                                        *)
(***************************************************************************)
RECURSIVE IndexFrom(_, _, _)
IndexFrom(s, c, i) ==
  IF i > Len(s) THEN 0
  ELSE IF s[i] = c THEN i
  ELSE IndexFrom(s, c, i + 1)

\* String.prototype.indexOf for a one-character needle (0 when absent).
IndexOf(s, c) == IndexFrom(s, c, 1)

\* String.prototype.substring(from) with a 1-based first position.
SubstringFrom(s, from) == SubSeq(s, from, Len(s))

hasPrefix(str, prefix) ==
  Len(str) >= Len(prefix) /\ SubSeq(str, 1, Len(prefix)) = prefix

hasSuffix(str, suffix) ==
  Len(str) >= Len(suffix)
  /\ SubSeq(str, Len(str) - Len(suffix) + 1, Len(str)) = suffix

\* Pattern.percentIndex (0 when the pattern has no '%').
percentIndex(pat) == IndexOf(pat, "%")

matchImpl(pat, str) ==
  /\ hasPrefix(str, SubSeq(pat, 1, percentIndex(pat) - 1))
  /\ hasSuffix(str, SubstringFrom(pat, percentIndex(pat) + 1))

match(pat, str) ==
  IF percentIndex(pat) = 0 THEN str = pat ELSE matchImpl(pat, str)

\* str.substring(prefixLen, str.length - suffixLen): substring swaps its
\* arguments when the first exceeds the second and clamps them to the string.
JsSubstring(str, a, b) ==
  LET lo0 == IF a < b THEN a ELSE b
      hi0 == IF a < b THEN b ELSE a
      lo  == IF lo0 < 0 THEN 0 ELSE IF lo0 > Len(str) THEN Len(str) ELSE lo0
      hi  == IF hi0 < 0 THEN 0 ELSE IF hi0 > Len(str) THEN Len(str) ELSE hi0
  IN SubSeq(str, lo + 1, hi)

stem(pat, str) ==
  IF ~match(pat, str) THEN <<>>
  ELSE LET prefixLen == percentIndex(pat) - 1
           suffixLen == Len(pat) - percentIndex(pat)
       IN JsSubstring(str, prefixLen, Len(str) - suffixLen)

appendSubst(pat, str, subst) ==
  IF percentIndex(pat) = 0
  THEN IF str = pat THEN subst ELSE str
  ELSE IF matchImpl(pat, str)
       THEN LET substPercentIndex == IndexOf(subst, "%") IN
            IF substPercentIndex = 0 THEN subst
            ELSE LET prefixLen == percentIndex(pat) - 1
                     suffixLen == Len(pat) - percentIndex(pat)
                     stm == JsSubstring(str, prefixLen, Len(str) - suffixLen)
                 IN SubSeq(subst, 1, substPercentIndex - 1) \o stm
                    \o SubstringFrom(subst, substPercentIndex + 1)
       ELSE str

\* The ASCII white space String.prototype.trim and trimStart remove.
IsSpace(c) == c \in {" ", "\t", "\n", "\r"}

RECURSIVE trimStart(_)
trimStart(s) ==
  IF Len(s) > 0 /\ IsSpace(s[1]) THEN trimStart(Tail(s)) ELSE s

RECURSIVE trimEnd(_)
trimEnd(s) ==
  IF Len(s) > 0 /\ IsSpace(s[Len(s)])
  THEN trimEnd(SubSeq(s, 1, Len(s) - 1)) ELSE s

trim(s) == trimEnd(trimStart(s))

\* String.prototype.split('\n'): the pieces between the newlines.
RECURSIVE splitLines(_)
splitLines(s) ==
  LET i == IndexOf(s, "\n") IN
  IF i = 0 THEN <<s>>
  ELSE <<SubSeq(s, 1, i - 1)>> \o splitLines(SubstringFrom(s, i + 1))

\* The elements of a sequence.
Range(s) == {s[i] : i \in DOMAIN s}

\* s[i] of the source, "" standing for undefined
At(s, i) == IF 0 <= i /\ i < Len(s) THEN s[i + 1] ELSE ""

\* s.substring(a)
SubstringAt(s, a) == JsSubstring(s, a, Len(s))

\* StrUtil.trimLeftSpace, trimRightSpace and trimSpace: blanks and tabs
RECURSIVE trimLeftSpace(_)
trimLeftSpace(s) ==
  IF Len(s) > 0 /\ s[1] \in {" ", "\t"} THEN trimLeftSpace(Tail(s)) ELSE s

RECURSIVE trimRightSpace(_)
trimRightSpace(s) ==
  IF Len(s) > 0 /\ s[Len(s)] \in {" ", "\t"}
  THEN trimRightSpace(SubSeq(s, 1, Len(s) - 1)) ELSE s

trimSpace(s) == trimRightSpace(trimLeftSpace(s))

\* Array.prototype.join(' ')
RECURSIVE JoinSpace(_)
JoinSpace(strs) ==
  IF strs = <<>> THEN <<>>
  ELSE IF Len(strs) = 1 THEN strs[1]
  ELSE strs[1] \o <<" ">> \o JoinSpace(Tail(strs))

RECURSIVE Reverse(_)
Reverse(s) == IF s = <<>> THEN <<>> ELSE Reverse(Tail(s)) \o <<Head(s)>>

(***************************************************************************)
(* dep.ts: rules and the rule trie.                                        *)
(*                                                                         *)
(* A Rule is the record RuleStmt.eval creates (after the recipe lines that *)
(* follow it were appended to cmds); id stands for the identity of the     *)
(* Rule object, which fillDepNode compares with ===.                       *)
(***************************************************************************)
\* "cmd_lineno: null": lines are numbered from 1
NoLine == 0

Rule(id, outputs, inputs, order_only_inputs, output_patterns, cmds, dc) ==
  [id |-> id, outputs |-> outputs, inputs |-> inputs,
   order_only_inputs |-> order_only_inputs,
   output_patterns |-> output_patterns, cmds |-> cmds,
   is_double_colon |-> dc, is_suffix_rule |-> FALSE, cmd_lineno |-> NoLine]

isSpecialTarget(output) ==
  Len(output) >= 2 /\ output[1] = "." /\ output[2] # "."

isSuffixRule(output) ==
  IF Len(output) = 0 \/ ~isSpecialTarget(output) THEN FALSE
  ELSE LET rest == Tail(output)
           dotIndex == IndexOf(rest, ".")
       IN ~(dotIndex = 0
            \/ IndexOf(SubstringFrom(rest, dotIndex + 1), ".") # 0)

\* A RuleTrie is a function from the path of a trie node (the characters
\* followed from the root) to the node's rules_ list; the children_ of a node
\* are the paths one character longer.
EmptyTrie == (<<>> :> <<>>)

RECURSIVE TrieAdd(_, _, _, _)
TrieAdd(trie, path, name, rule) ==
  LET here == IF path \in DOMAIN trie THEN trie ELSE trie @@ (path :> <<>>) IN
  IF Len(name) = 0 \/ name[1] = "%"
  THEN [here EXCEPT ![path] = Append(@, [rule |-> rule, suffix |-> name])]
  ELSE TrieAdd(here, Append(path, name[1]), Tail(name), rule)

RECURSIVE MatchingEntries(_, _)
MatchingEntries(entries, name) ==
  IF entries = <<>> THEN <<>>
  ELSE LET entry == Head(entries)
           hit == \/ (Len(entry.suffix) = 0 /\ Len(name) = 0)
                  \/ hasSuffix(name, SubstringFrom(entry.suffix, 2))
       IN (IF hit THEN <<entry.rule>> ELSE <<>>)
          \o MatchingEntries(Tail(entries), name)

RECURSIVE TrieGet(_, _, _)
TrieGet(trie, path, name) ==
  MatchingEntries(trie[path], name)
  \o (IF Len(name) = 0 THEN <<>>
      ELSE IF Append(path, name[1]) \in DOMAIN trie
           THEN TrieGet(trie, Append(path, name[1]), Tail(name))
           ELSE <<>>)

(***************************************************************************)
(* dep.ts: RuleMerger.  implicit_outputs, validations and parent are never *)
(* written by this port (populateRules leaves them as TODOs), so a merger  *)
(* is its rules, its primary rule and its colon kind.                      *)
(***************************************************************************)
NewMerger == [rules |-> <<>>, primary_rule |-> NoRule, is_double_colon |-> FALSE]

\* An addRule whose primary rule stays the first rule that has commands.
AddedRuleKeepingPrimary(merger, output, rule) ==
  [ok |-> TRUE,
   merger |-> [rules |-> Append(merger.rules, rule),
               primary_rule |->
                 IF merger.primary_rule = NoRule /\ Len(rule.cmds) > 0
                 THEN rule.id ELSE merger.primary_rule,
               is_double_colon |->
                 IF Len(merger.rules) = 0 THEN rule.is_double_colon
                 ELSE merger.is_double_colon]]

\* RuleMerger.addRule from "if (this.primary_rule && ..." on: the primary
\* rule and the push, the colon kind being that of the first rule.
AddedRule(merger, output, rule) ==
  LET dc == IF Len(merger.rules) = 0 THEN rule.is_double_colon
            ELSE merger.is_double_colon
      p1 == IF /\ merger.primary_rule # NoRule
               /\ Len(rule.cmds) > 0
               /\ ~isSuffixRule(output)
               /\ ~rule.is_double_colon
            THEN rule.id ELSE merger.primary_rule
      p2 == IF p1 = NoRule /\ Len(rule.cmds) > 0 THEN rule.id ELSE p1
  IN [ok |-> TRUE,
      merger |-> [rules |-> Append(merger.rules, rule),
                  primary_rule |-> p2, is_double_colon |-> dc]]

\* An addRule that accepts : and :: entries for the same target.
addRuleAnyColon(merger, output, rule) == AddedRule(merger, output, rule)

\* RuleMerger.addRule; ok = FALSE is the thrown
\* "target file has both : and :: entries".
addRule(merger, output, rule) ==
  IF Len(merger.rules) # 0 /\ merger.is_double_colon # rule.is_double_colon
  THEN [ok |-> FALSE, merger |-> merger]
  ELSE AddedRule(merger, output, rule)

stripExt(path) ==
  LET dots == {i \in DOMAIN path : path[i] = "."}
      slashes == {i \in DOMAIN path : path[i] \in {"/", "\\"}}
      lastDot == IF dots = {} THEN 0 ELSE CHOOSE i \in dots : \A j \in dots : j <= i
      lastSlash == IF slashes = {} THEN 0
                   ELSE CHOOSE i \in slashes : \A j \in slashes : j <= i
  IN IF lastDot > lastSlash THEN SubSeq(path, 1, lastDot - 1) ELSE path

replaceSuffix(s, newsuf) == stripExt(s) \o <<".">> \o newsuf

RECURSIVE MapReplaceSuffix(_, _)
MapReplaceSuffix(output, inputs) ==
  IF inputs = <<>> THEN <<>>
  ELSE <<replaceSuffix(output, Head(inputs))>>
       \o MapReplaceSuffix(output, Tail(inputs))

RECURSIVE MapAppendSubst(_, _, _)
MapAppendSubst(pat, output, inputs) ==
  IF inputs = <<>> THEN <<>>
  ELSE <<appendSubst(pat, output, Head(inputs))>>
       \o MapAppendSubst(pat, output, Tail(inputs))

\* applyOutputPattern: what is pushed onto outInputs; ok = FALSE is the thrown
\* "Multiple output patterns not supported".
applyOutputPattern(rule, output, inputs) ==
  IF Len(inputs) = 0 THEN [ok |-> TRUE, out |-> <<>>]
  ELSE IF rule.is_suffix_rule
  THEN [ok |-> TRUE, out |-> MapReplaceSuffix(output, inputs)]
  ELSE IF Len(rule.output_patterns) = 0 THEN [ok |-> TRUE, out |-> inputs]
  ELSE IF Len(rule.output_patterns) # 1 THEN [ok |-> FALSE, out |-> <<>>]
  ELSE [ok |-> TRUE,
        out |-> MapAppendSubst(rule.output_patterns[1], output, inputs)]

\* The body of fillDepNodeFromRule, given what the two applyOutputPattern
\* calls pushed (ins, oos); node.error records a throw.
FilledFromRule(merger, rule, node, ins, oos) ==
  [node EXCEPT
     !.cmds = IF merger.is_double_colon THEN @ \o rule.cmds ELSE @,
     !.actual_inputs = @ \o ins.out,
     !.actual_order_only_inputs = @ \o oos.out,
     !.output_pattern =
        IF Len(rule.output_patterns) = 1 THEN rule.output_patterns[1] ELSE @,
     !.error = @ \/ ~ins.ok \/ ~oos.ok \/ Len(rule.output_patterns) > 1]

\* A fillDepNodeFromRule that takes the inputs of a rule and leaves its
\* commands out.
fillDepNodeFromRuleInputsOnly(merger, output, rule, node) ==
  FilledFromRule([merger EXCEPT !.is_double_colon = FALSE], rule, node,
                 applyOutputPattern(rule, output, rule.inputs),
                 applyOutputPattern(rule, output, rule.order_only_inputs))

\* RuleMerger.fillDepNodeFromRule
fillDepNodeFromRule(merger, output, rule, node) ==
  FilledFromRule(merger, rule, node,
                 applyOutputPattern(rule, output, rule.inputs),
                 applyOutputPattern(rule, output, rule.order_only_inputs))

RuleById(rules, id) ==
  rules[CHOOSE i \in DOMAIN rules : rules[i].id = id]

RECURSIVE FillFromOtherRules(_, _, _, _)
FillFromOtherRules(merger, output, rules, node) ==
  IF rules = <<>> THEN node
  ELSE FillFromOtherRules(
         merger, output, Tail(rules),
         IF Head(rules).id = merger.primary_rule THEN node
         ELSE fillDepNodeFromRule(merger, output, Head(rules), node))

\* fillDepNodeFromRule, fillDepNodeLoc and "node.cmds = [...rule.cmds]"
FillFromMainRule(merger, output, rule, node) ==
  [fillDepNodeFromRule(merger, output, rule, node) EXCEPT !.cmds = rule.cmds]

\* A fillDepNode that fills the node from the primary rule after the other
\* rules.
fillDepNodeOthersFirst(merger, output, patternRule, node) ==
  LET others == FillFromOtherRules(merger, output, merger.rules, node)
  IN IF merger.primary_rule # NoRule
     THEN IF patternRule # <<>> THEN [others EXCEPT !.error = TRUE]
          ELSE FillFromMainRule(merger, output,
                                RuleById(merger.rules, merger.primary_rule),
                                others)
     ELSE IF patternRule # <<>>
          THEN FillFromMainRule(merger, output, patternRule[1], others)
          ELSE others

\* RuleMerger.fillDepNode; patternRule is <<>> (null) or <<rule>>.
fillDepNode(merger, output, patternRule, node) ==
  FillFromOtherRules(
    merger, output, merger.rules,
    IF merger.primary_rule # NoRule
    THEN IF patternRule # <<>> THEN [node EXCEPT !.error = TRUE]
         ELSE FillFromMainRule(merger, output,
                               RuleById(merger.rules, merger.primary_rule), node)
    ELSE IF patternRule # <<>>
         THEN FillFromMainRule(merger, output, patternRule[1], node)
         ELSE node)

(***************************************************************************)
(* dep.ts: DepBuilder.  A builder is the record of its private fields; a   *)
(* null Symbol is the empty string <<>>; ok = FALSE records a throw.       *)
(***************************************************************************)
sPHONY == <<".", "P", "H", "O", "N", "Y">>
sKATI_RESTAT == <<".", "K", "A", "T", "I", "_", "R", "E", "S", "T", "A", "T">>
sSUFFIXES == <<".", "S", "U", "F", "F", "I", "X", "E", "S">>

NewDepBuilder ==
  [ok |-> TRUE, rules_ |-> <<>>, implicit_rules_ |-> EmptyTrie,
   suffix_rules_ |-> <<>>, first_rule_ |-> <<>>, phony_ |-> {}, restat_ |-> {}]

populateSuffixRule(db, rule, output) ==
  IF ~isSuffixRule(output) THEN db
  ELSE LET rest == Tail(output)
           dotIndex == IndexOf(rest, ".")
           inputSuffix == SubSeq(rest, 1, dotIndex - 1)
           outputSuffix == SubstringFrom(rest, dotIndex + 1)
           suffixRule == [rule EXCEPT !.inputs = <<inputSuffix>>,
                                      !.is_suffix_rule = TRUE]
           ruleList == IF outputSuffix \in DOMAIN db.suffix_rules_
                       THEN db.suffix_rules_[outputSuffix] ELSE <<>>
       IN [db EXCEPT !.suffix_rules_ =
             (outputSuffix :> Append(ruleList, suffixRule)) @@ @]

\* A populateExplicitRule that takes the first output of the first explicit
\* rule as the first rule, special or not.
PopulatedAnyFirstOutput(db, rule, output, added) ==
  IF added.ok
  THEN populateSuffixRule(
         [db EXCEPT !.first_rule_ = IF @ = <<>> THEN output ELSE @,
                    !.rules_ = (output :> added.merger) @@ @],
         rule, output)
  ELSE [db EXCEPT !.ok = FALSE]

\* One turn of the loop of populateExplicitRule, given what addRule returned.
PopulatedOutput(db, rule, output, added) ==
  IF added.ok
  THEN populateSuffixRule(
         [db EXCEPT !.first_rule_ =
                       IF @ = <<>> /\ ~isSpecialTarget(output) THEN output ELSE @,
                    !.rules_ = (output :> added.merger) @@ @],
         rule, output)
  ELSE [db EXCEPT !.ok = FALSE]

RECURSIVE populateExplicitRule(_, _, _)
populateExplicitRule(db, rule, outputs) ==
  IF outputs = <<>> \/ ~db.ok THEN db
  ELSE populateExplicitRule(
         PopulatedOutput(
           db, rule, Head(outputs),
           addRule(IF Head(outputs) \in DOMAIN db.rules_
                   THEN db.rules_[Head(outputs)] ELSE NewMerger,
                   Head(outputs), rule)),
         rule, Tail(outputs))

RECURSIVE populateImplicitRule(_, _, _)
populateImplicitRule(db, rule, patterns) ==
  IF patterns = <<>> THEN db
  ELSE populateImplicitRule(
         [db EXCEPT !.implicit_rules_ = TrieAdd(@, <<>>, Head(patterns), rule)],
         rule, Tail(patterns))

RECURSIVE populateRules(_, _)
populateRules(db, rules) ==
  IF rules = <<>> \/ ~db.ok
  THEN [db EXCEPT !.suffix_rules_ =
          [suf \in DOMAIN db.suffix_rules_ |-> Reverse(db.suffix_rules_[suf])]]
  ELSE populateRules(
         IF Len(Head(rules).outputs) = 0
         THEN populateImplicitRule(db, Head(rules), Head(rules).output_patterns)
         ELSE populateExplicitRule(db, Head(rules), Head(rules).outputs),
         Tail(rules))

RECURSIVE ConcatInputs(_)
ConcatInputs(rules) ==
  IF rules = <<>> THEN <<>> ELSE Head(rules).inputs \o ConcatInputs(Tail(rules))

\* DepBuilder.getRuleInputs; found = FALSE is the returned null.
getRuleInputs(db, sym) ==
  IF sym \notin DOMAIN db.rules_ \/ Len(db.rules_[sym].rules) = 0
  THEN [found |-> FALSE, inputs |-> <<>>]
  ELSE [found |-> TRUE, inputs |-> ConcatInputs(db.rules_[sym].rules)]

\* A handleSpecialTargets that ignores .PHONY, .KATI_RESTAT and .SUFFIXES.
ignoreSpecialTargets(db) == db

\* .SUFFIXES without prerequisites clears the suffix rules.
ClearsSuffixRules(suffixTargets) ==
  suffixTargets.found /\ Len(suffixTargets.inputs) = 0

handleSpecialTargets(db) ==
  IF ~db.ok THEN db
  ELSE [db EXCEPT
          !.phony_ = Range(getRuleInputs(db, sPHONY).inputs),
          !.restat_ = Range(getRuleInputs(db, sKATI_RESTAT).inputs),
          !.suffix_rules_ =
             IF ClearsSuffixRules(getRuleInputs(db, sSUFFIXES)) THEN <<>> ELSE @]

\* new DepBuilder(rules, ruleVars): populateRules, then handleSpecialTargets
\* (not reached when populateRules throws).
DepBuilder(rules) == handleSpecialTargets(populateRules(NewDepBuilder, rules))

\* The DepNode buildPlan creates for output.  The rule variables
\* (rule_vars, depfile_var, ninja_pool_var, tags_var) and loc play no part in
\* the graph or the execution order and are left out; deps, order_onlys and
\* validations hold the input of each edge, its node being done_[input].
\* created is history: the number of DepNodes made for output so far.
NewDepNode(db, output) ==
  [output |-> output, has_rule |-> FALSE, is_default_target |-> FALSE,
   is_phony |-> output \in db.phony_, is_restat |-> output \in db.restat_,
   cmds |-> <<>>, actual_inputs |-> <<>>, actual_order_only_inputs |-> <<>>,
   actual_validations |-> <<>>, implicit_outputs |-> <<>>,
   deps |-> <<>>, order_onlys |-> <<>>, validations |-> <<>>,
   output_pattern |-> <<>>, error |-> FALSE, created |-> 0]

\* The rule buildPlan passes to fillDepNode as the pattern rule: always null.
SelectPatternRule(db, output) == <<>>

\* buildPlan sets has_rule on every node it returns.
NodeHasRule(db, output) == TRUE

\* DepBuilder.buildPlan, on the memo map done_ (a function from the output
\* symbols seen so far to their nodes); the result is the memo map after the
\* call.  A node is entered in done_ before its inputs are built, so a request
\* for a symbol being built returns that node.
\* The node of buildPlan after "Rule selection logic".
FilledDepNode(db, output) ==
  IF output \in DOMAIN db.rules_
  THEN fillDepNode(db.rules_[output], output, SelectPatternRule(db, output),
                   NewDepNode(db, output))
  ELSE NewDepNode(db, output)

\* The end of buildPlan: the edges pushed by the three loops, has_rule and
\* is_default_target.
FinishedDepNode(db, output, node) ==
  [node EXCEPT !.deps = node.actual_inputs,
               !.order_onlys = node.actual_order_only_inputs,
               !.validations = node.actual_validations,
               !.has_rule = NodeHasRule(db, output),
               !.is_default_target = (db.first_rule_ = output)]

\* A buildPlan that takes from done_ only the nodes it has not finished.
existingUnfinished(done, output) ==
  output \in DOMAIN done /\ ~done[output].has_rule

\* buildPlan: "const existing = this.done_.get(output); if (existing)"
existing(done, output) == output \in DOMAIN done

\* "this.done_.set(output, node)", the DepNodes made for output counted
doneSet(done, output, node) ==
  (output :> [node EXCEPT !.created =
                IF output \in DOMAIN done THEN done[output].created + 1
                ELSE 1])
  @@ done

RECURSIVE buildPlan(_, _, _)
RECURSIVE buildPlans(_, _, _)
RECURSIVE buildPlanOf(_, _, _, _)
buildPlan(db, done, output) ==
  IF existing(done, output) THEN done
  ELSE buildPlanOf(db, done, output, FilledDepNode(db, output))

\* buildPlan from "this.done_.set(output, node)" on.
buildPlanOf(db, done, output, node) ==
  [buildPlans(db,
     buildPlans(db,
       buildPlans(db, doneSet(done, output, node), node.actual_inputs),
       node.actual_order_only_inputs),
     node.actual_validations)
   EXCEPT ![output] = FinishedDepNode(db, output, @)]

buildPlans(db, done, inputs) ==
  IF inputs = <<>> THEN done
  ELSE buildPlans(db, buildPlan(db, done, Head(inputs)), Tail(inputs))

\* What build returns: ok = FALSE is a throw; roots are the names of the
\* returned NamedDepNodes.
BuildResult(done, targetList) ==
  [ok |-> \A o \in DOMAIN done : ~done[o].error,
   done_ |-> done, roots |-> targetList]

BuildFailed == [ok |-> FALSE, done_ |-> <<>>, roots |-> <<>>]

\* "targets.length > 0 ? targets : [this.first_rule_]"
TargetList(db, targets) ==
  IF Len(targets) > 0 THEN targets ELSE <<db.first_rule_>>

\* DepBuilder.build ("No targets" when there is no first rule)
build(db, targets) ==
  IF db.first_rule_ = <<>> THEN BuildFailed
  ELSE BuildResult(buildPlans(db, <<>>, TargetList(db, targets)),
                   TargetList(db, targets))

BuildWith(db, targets) == IF db.ok THEN build(db, targets) ELSE BuildFailed

\* makeDep(ev, rules, ruleVars, targets)
makeDep(rules, targets) == BuildWith(DepBuilder(rules), targets)

(***************************************************************************)
(* var.ts: the command evaluator.                                          *)
(***************************************************************************)
\* parseCommandPrefixes(s)
RECURSIVE parsePrefixLoop(_, _, _)
parsePrefixLoop(cmd, echo, ignore_error) ==
  IF Len(cmd) > 0 /\ cmd[1] \in {"@", "-", "+"}
  THEN parsePrefixLoop(trimStart(Tail(cmd)),
                       IF cmd[1] = "@" THEN FALSE ELSE echo,
                       IF cmd[1] = "-" THEN TRUE ELSE ignore_error)
  ELSE [cmd |-> cmd, echo |-> echo, ignore_error |-> ignore_error]

\* A parseCommandPrefixes that drops the '-' prefix without recording it.
parseWithoutIgnoreError(s) ==
  [parsePrefixLoop(trimStart(s), TRUE, FALSE) EXCEPT !.ignore_error = FALSE]

parseCommandPrefixes(s) == parsePrefixLoop(trimStart(s), TRUE, FALSE)

RECURSIVE evalLines(_, _)
evalLines(output, lines) ==
  IF lines = <<>> THEN <<>>
  ELSE LET line == Head(lines)
           parsed == parseCommandPrefixes(line)
       IN (IF trim(line) = <<>> \/ Len(parsed.cmd) = 0 THEN <<>>
           ELSE <<[output |-> output, cmd |-> parsed.cmd, echo |-> parsed.echo,
                   ignore_error |-> parsed.ignore_error]>>)
          \o evalLines(output, Tail(lines))

RECURSIVE evalCmds(_, _)
evalCmds(output, cmds) ==
  IF cmds = <<>> THEN <<>>
  ELSE evalLines(output, splitLines(Head(cmds))) \o evalCmds(output, Tail(cmds))

\* CommandEvaluator.eval(node): the Commands of a node, in order.
CommandEvaluatorEval(node) == evalCmds(node.output, node.cmds)

(***************************************************************************)
(* core/ast.ts and var.ts: values, variables and statements.               *)
(*                                                                         *)
(* The result of an evaluation is [ok, s]: ok = FALSE is a thrown error.   *)
(* Vars is a function from the names that are set to their Var.            *)
(***************************************************************************)
Literal(s) == [k |-> "Literal", s |-> s]
SymRef(name) == [k |-> "SymRef", name |-> name]
ValueList(values) == [k |-> "ValueList", values |-> values]
\* "rhs: Expr | null"
NullExpr == [k |-> "null"]

SimpleVar(v) == [flavor |-> "simple", v |-> v, readonly |-> FALSE]
RecursiveVar(v, orig) ==
  [flavor |-> "recursive", v |-> v, orig |-> orig, readonly |-> FALSE]
UndefinedVar == [flavor |-> "undefined", readonly |-> FALSE]

\* Var.isDefined()
isDefined(var) == var.flavor # "undefined"

\* Var.string()
VarString(var) ==
  IF var.flavor = "simple" THEN var.v
  ELSE IF var.flavor = "recursive" THEN var.orig
  ELSE <<>>

\* Vars.lookup(name)
lookup(vs, name) == IF name \in DOMAIN vs THEN vs[name] ELSE UndefinedVar

\* Vars.assign(name, v)
assign(vs, name, v) ==
  IF name \in DOMAIN vs /\ vs[name].readonly THEN vs ELSE (name :> v) @@ vs

\* Evaluator.getVar(name): the lookup of the variable environment
getVar(vs, name) == lookup(vs, name)

\* Evaluator.setVar(name, var): the assign of the variable environment
setVar(vs, name, v) == assign(vs, name, v)

Thrown == [ok |-> FALSE, s |-> <<>>]
Returned(s) == [ok |-> TRUE, s |-> s]

\* ...join(''), one piece having thrown or not
Joined(a, b) == IF a.ok /\ b.ok THEN Returned(a.s \o b.s) ELSE Thrown

\* FUNC_INFO_MAP, for the functions the lines of the model call: every one
\* of them has trimSpace and trimRightFirst false.
FuncInfos ==
  (<<"v", "a", "l", "u", "e">> :> [arity |-> 1, minArity |-> 1]) @@
  (<<"c", "a", "l", "l">> :> [arity |-> 0, minArity |-> 0]) @@
  (<<"f", "o", "r", "e", "a", "c", "h">> :> [arity |-> 3, minArity |-> 3]) @@
  (<<"p", "a", "t", "s", "u", "b", "s", "t">> :>
     [arity |-> 3, minArity |-> 3]) @@
  (<<"w", "o", "r", "d", "l", "i", "s", "t">> :>
     [arity |-> 3, minArity |-> 3]) @@
  (<<"w", "o", "r", "d">> :> [arity |-> 2, minArity |-> 2])

\* getFuncInfo(name) is not null
isRegistered(name) == name \in DOMAIN FuncInfos

\* Value.eval(ev) for Literal, ValueList and SymRef, and Var.eval(ev) for the
\* Var a SymRef finds; Func, VarRef and VarSubst are with the functions.
\* depth is the number of nested variable expansions left before the call
\* stack is exhausted (a thrown RangeError).
RECURSIVE ValueEval(_, _, _)
RECURSIVE ValuesEval(_, _, _)
RECURSIVE FuncEval(_, _, _)
RECURSIVE VarRefEval(_, _, _)
RECURSIVE VarSubstEval(_, _, _)
ValueEval(vs, v, depth) ==
  IF v.k = "Literal" THEN Returned(v.s)
  ELSE IF v.k = "ValueList" THEN ValuesEval(vs, v.values, depth)
  ELSE IF v.k = "Func" THEN FuncEval(vs, v, depth)
  ELSE IF v.k = "VarRef" THEN VarRefEval(vs, v, depth)
  ELSE IF v.k = "VarSubst" THEN VarSubstEval(vs, v, depth)
  ELSE IF depth = 0 THEN Thrown
  ELSE IF getVar(vs, v.name).flavor = "simple"
       THEN Returned(getVar(vs, v.name).v)
  ELSE IF getVar(vs, v.name).flavor = "recursive"
       THEN ValueEval(vs, getVar(vs, v.name).v, depth - 1)
  ELSE Returned(<<>>)

ValuesEval(vs, values, depth) ==
  IF values = <<>> THEN Returned(<<>>)
  ELSE Joined(ValueEval(vs, Head(values), depth),
              ValuesEval(vs, Tail(values), depth))

(***************************************************************************)
(* debug-harness.ts: the functions of FUNC_INFO_MAP the model calls, with  *)
(* Func.eval, VarRef.eval and VarSubst.eval of core/ast.ts.                *)
(*                                                                         *)
(* The scopes of the Evaluator are a stack of mappings name -> Var, the    *)
(* global variables at the bottom; a lookup finds the topmost Var of the   *)
(* name.  A function evaluated on a stack leaves a result and a stack.     *)
(***************************************************************************)
\* splitSpace: the characters of [\x09\x0a\x0b\x0c\x0d ] the model writes
SpaceChars == {"\t", "\n", "\r", " "}

RECURSIVE splitSpaceFrom(_, _, _)
splitSpaceFrom(str, word, words) ==
  IF str = <<>>
  THEN IF word = <<>> THEN words ELSE Append(words, word)
  ELSE IF Head(str) \in SpaceChars
       THEN splitSpaceFrom(Tail(str), <<>>,
                           IF word = <<>> THEN words ELSE Append(words, word))
  ELSE splitSpaceFrom(Tail(str), Append(word, Head(str)), words)

\* splitSpace(str)
splitSpace(str) == splitSpaceFrom(str, <<>>, <<>>)

DigitChars == <<"0", "1", "2", "3", "4", "5", "6", "7", "8", "9">>

\* Number.prototype.toString() of a natural number
RECURSIVE NumStr(_)
NumStr(i) ==
  IF i < 10 THEN <<DigitChars[i + 1]>>
  ELSE NumStr(i \div 10) \o <<DigitChars[(i % 10) + 1]>>

RECURSIVE parseDigits(_, _, _)
parseDigits(s, i, n) ==
  IF i <= Len(s) /\ s[i] \in Range(DigitChars)
  THEN parseDigits(s, i + 1, n * 10 + IndexOf(DigitChars, s[i]) - 1)
  ELSE n

\* parseInt(s, 10) of a string without leading white space: the digits it
\* starts with, after a sign; NaN when there is none
parseIntSigned(s, sign, from) ==
  [nan |-> ~(from <= Len(s) /\ s[from] \in Range(DigitChars)),
   n |-> sign * parseDigits(s, from, 0)]

parseInt(s) ==
  IF Len(s) > 0 /\ s[1] = "-" THEN parseIntSigned(s, -1, 2)
  ELSE IF Len(s) > 0 /\ s[1] = "+" THEN parseIntSigned(s, 1, 2)
  ELSE parseIntSigned(s, 1, 1)

numericValue(n) == IF n.nan \/ n.n < 0 THEN -1 ELSE n.n

\* getNumericValueForFunc(buf)
getNumericValueForFunc(buf) == numericValue(parseInt(trimLeftSpace(buf)))

\* Evaluator.lookupVar(name); "variable ? ... : ..." is isDefined
lookupVar(vs, name) == IF name \in DOMAIN vs THEN vs[name] ELSE UndefinedVar

\* Var.eval(ev) for the Var a function has looked up
VarValue(vs, var, depth) ==
  IF var.flavor = "simple" THEN Returned(var.v)
  ELSE IF var.flavor = "recursive"
       THEN IF depth = 0 THEN Thrown ELSE ValueEval(vs, var.v, depth - 1)
  ELSE Returned(<<>>)

\* VarRef.eval, the name evaluated
VarRefNamed(vs, name, depth) ==
  IF ~name.ok THEN Thrown ELSE VarValue(vs, getVar(vs, name.s), depth)

VarRefEval(vs, v, depth) ==
  VarRefNamed(vs, ValueEval(vs, v.name, depth), depth)

\* words.map(word => pattern.appendSubst(word, sub)), the empty results
\* dropped or kept
RECURSIVE substWords(_, _, _, _)
substWords(pat, subst, words, keepEmpty) ==
  IF words = <<>> THEN <<>>
  ELSE (IF appendSubst(pat, Head(words), subst) # <<>> \/ keepEmpty
        THEN <<appendSubst(pat, Head(words), subst)>> ELSE <<>>)
       \o substWords(pat, subst, Tail(words), keepEmpty)

\* VarSubst.eval, the name, the pattern and the substitution evaluated
VarSubstOf(name, pat, sub, varValue) ==
  IF ~varValue.ok THEN Thrown
  ELSE Returned(JoinSpace(substWords(pat.s, sub.s, splitSpace(varValue.s),
                                     TRUE)))

VarSubstNamed(vs, name, pat, sub, depth) ==
  IF ~name.ok \/ ~pat.ok \/ ~sub.ok THEN Thrown
  ELSE VarSubstOf(name, pat, sub, VarValue(vs, getVar(vs, name.s), depth))

VarSubstEval(vs, v, depth) ==
  VarSubstNamed(vs, ValueEval(vs, v.name, depth), ValueEval(vs, v.pat, depth),
                ValueEval(vs, v.subst, depth), depth)

\* patsubstFunc, the arguments evaluated
patsubstOf(patStr, repl, str) ==
  IF ~patStr.ok \/ ~repl.ok \/ ~str.ok THEN Thrown
  ELSE Returned(JoinSpace(substWords(patStr.s, repl.s, splitSpace(str.s),
                                     FALSE)))

\* patsubstFunc
patsubstFunc(vs, args, depth) ==
  patsubstOf(ValueEval(vs, args[1], depth), ValueEval(vs, args[2], depth),
             ValueEval(vs, args[3], depth))

\* wordlistFunc: "for (let i = si - 1; i < Math.min(ei, words.length); i++)"
\* with "if (i >= 0)"
wordlistWords(si, ei, words) ==
  JoinSpace(SubSeq(words, IF si < 1 THEN 1 ELSE si,
                   IF ei < Len(words) THEN ei ELSE Len(words)))

\* A wordlistFunc that takes a first argument of 0 as well.
invalidFirstNever(si) == FALSE

\* wordlistFunc: "if (si === 0)"
invalidFirst(si) == si = 0

\* wordlistFunc, the arguments evaluated
wordlistOf(sStr, eStr, text) ==
  IF ~sStr.ok THEN Thrown
  ELSE IF getNumericValueForFunc(sStr.s) < 0 THEN Thrown
  ELSE IF invalidFirst(getNumericValueForFunc(sStr.s)) THEN Thrown
  ELSE IF ~eStr.ok THEN Thrown
  ELSE IF getNumericValueForFunc(eStr.s) < 0 THEN Thrown
  ELSE IF ~text.ok THEN Thrown
  ELSE Returned(wordlistWords(getNumericValueForFunc(sStr.s),
                              getNumericValueForFunc(eStr.s),
                              splitSpace(text.s)))

\* wordlistFunc
wordlistFunc(vs, args, depth) ==
  wordlistOf(ValueEval(vs, args[1], depth), ValueEval(vs, args[2], depth),
             ValueEval(vs, args[3], depth))

\* wordFunc: "if (n <= words.length)"
wordAt(n, words) == IF n <= Len(words) THEN words[n] ELSE <<>>

\* wordFunc, the arguments evaluated
wordOf(nStr, text) ==
  IF ~nStr.ok THEN Thrown
  ELSE IF getNumericValueForFunc(nStr.s) < 0 THEN Thrown
  ELSE IF getNumericValueForFunc(nStr.s) = 0 THEN Thrown
  ELSE IF ~text.ok THEN Thrown
  ELSE Returned(wordAt(getNumericValueForFunc(nStr.s), splitSpace(text.s)))

\* wordFunc
wordFunc(vs, args, depth) ==
  wordOf(ValueEval(vs, args[1], depth), ValueEval(vs, args[2], depth))

\* valueFunc, the name evaluated: "variable ? variable.eval(ev) : ''"
valueOf(vs, varName, depth) ==
  IF ~varName.ok THEN Thrown
  ELSE IF isDefined(lookupVar(vs, varName.s))
       THEN VarValue(vs, lookupVar(vs, varName.s), depth)
  ELSE Returned(<<>>)

\* valueFunc
valueFunc(vs, args, depth) == valueOf(vs, ValueEval(vs, args[1], depth), depth)

\* What a function leaves: its result and the scopes
Scoped(result, scopes_) == [result |-> result, scopes |-> scopes_]

\* The variables as a lookup sees them through the scopes
RECURSIVE Flatten(_)
Flatten(scopes_) ==
  IF scopes_ = <<>> THEN <<>>
  ELSE scopes_[Len(scopes_)] @@ Flatten(SubSeq(scopes_, 1, Len(scopes_) - 1))

\* Evaluator.withScope(fn): the new scope fn is called with
withScopeEnter(scopes_) == Append(scopes_, <<>>)

\* scope.set(name, var) on the scope of withScope
scopeSet(scopes_, name, var) ==
  [scopes_ EXCEPT ![Len(scopes_)] = (name :> var) @@ @]

\* An Evaluator.withScope(fn) that pops the scope only when fn returns.
withScopeExitOnReturn(r) ==
  Scoped(r.result, IF r.result.ok
                   THEN SubSeq(r.scopes, 1, Len(r.scopes) - 1) ELSE r.scopes)

\* Evaluator.withScope(fn): the scope is popped, fn having returned or thrown
withScopeExit(r) ==
  Scoped(r.result, SubSeq(r.scopes, 1, Len(r.scopes) - 1))

\* callFunc: "for (let i = 1; i < args.length; i++)" at the argument i
RECURSIVE bindParams(_, _, _, _)
RECURSIVE bindParam(_, _, _, _, _)
bindParams(scopes_, args, i, depth) ==
  IF i > Len(args) THEN [ok |-> TRUE, scopes |-> scopes_]
  ELSE bindParam(scopes_, args, i, depth,
                 ValueEval(Flatten(scopes_), args[i], depth))

bindParam(scopes_, args, i, depth, paramValue) ==
  IF ~paramValue.ok THEN [ok |-> FALSE, scopes |-> scopes_]
  ELSE bindParams(scopeSet(scopes_, NumStr(i - 1), SimpleVar(paramValue.s)),
                  args, i + 1, depth)

\* callFunc: "return func.eval(ev)" with the parameters bound
callBody(bound, func, depth) ==
  Scoped(IF bound.ok THEN VarValue(Flatten(bound.scopes), func, depth)
         ELSE Thrown,
         bound.scopes)

\* callFunc, the name of the function evaluated and trimmed
callNamed(scopes_, funcName, func, args, depth) ==
  IF ~isDefined(func) THEN Scoped(Returned(<<>>), scopes_)
  ELSE withScopeExit(
         callBody(bindParams(scopeSet(withScopeEnter(scopes_), <<"0">>,
                                      SimpleVar(funcName)),
                             args, 2, depth),
                  func, depth))

callOf(scopes_, funcName, args, depth) ==
  IF ~funcName.ok THEN Scoped(Thrown, scopes_)
  ELSE callNamed(scopes_, trimSpace(funcName.s),
                 lookupVar(Flatten(scopes_), trimSpace(funcName.s)),
                 args, depth)

\* callFunc
callFunc(scopes_, args, depth) ==
  IF args = <<>> THEN Scoped(Thrown, scopes_)
  ELSE callOf(scopes_, ValueEval(Flatten(scopes_), args[1], depth), args,
              depth)

\* foreachFunc: "return expr.eval(ev)" with the loop variable bound
foreachBody(bound, expr, depth) ==
  Scoped(ValueEval(Flatten(bound), expr, depth), bound)

\* foreachFunc: "for (const word of words)" with the words that are left
RECURSIVE foreachLoop(_, _, _, _, _, _)
RECURSIVE foreachNext(_, _, _, _, _, _)
foreachLoop(scopes_, varname, words, expr, depth, result) ==
  IF words = <<>> THEN Scoped(Returned(JoinSpace(result)), scopes_)
  ELSE foreachNext(
         withScopeExit(
           foreachBody(scopeSet(withScopeEnter(scopes_), varname,
                                SimpleVar(Head(words))),
                       expr, depth)),
         varname, Tail(words), expr, depth, result)

foreachNext(iterResult, varname, words, expr, depth, result) ==
  IF ~iterResult.result.ok THEN iterResult
  ELSE foreachLoop(iterResult.scopes, varname, words, expr, depth,
                   Append(result, iterResult.result.s))

\* foreachFunc, the name and the list evaluated
foreachOf(scopes_, varname, list, expr, depth) ==
  IF ~varname.ok \/ ~list.ok THEN Scoped(Thrown, scopes_)
  ELSE foreachLoop(scopes_, varname.s, splitSpace(list.s), expr, depth, <<>>)

\* foreachFunc
foreachFunc(scopes_, args, depth) ==
  foreachOf(scopes_, ValueEval(Flatten(scopes_), args[1], depth),
            ValueEval(Flatten(scopes_), args[2], depth), args[3], depth)

sValue == <<"v", "a", "l", "u", "e">>
sCall == <<"c", "a", "l", "l">>
sForeach == <<"f", "o", "r", "e", "a", "c", "h">>
sPatsubst == <<"p", "a", "t", "s", "u", "b", "s", "t">>
sWordlist == <<"w", "o", "r", "d", "l", "i", "s", "t">>
sWord == <<"w", "o", "r", "d">>

\* Func.eval on the scopes
FuncEvalScoped(scopes_, v, depth) ==
  IF ~isRegistered(v.name) THEN Scoped(Thrown, scopes_)
  ELSE IF Len(v.args) < FuncInfos[v.name].minArity
       THEN Scoped(Thrown, scopes_)
  ELSE IF v.name = sCall THEN callFunc(scopes_, v.args, depth)
  ELSE IF v.name = sForeach THEN foreachFunc(scopes_, v.args, depth)
  ELSE IF v.name = sValue
       THEN Scoped(valueFunc(Flatten(scopes_), v.args, depth), scopes_)
  ELSE IF v.name = sPatsubst
       THEN Scoped(patsubstFunc(Flatten(scopes_), v.args, depth), scopes_)
  ELSE IF v.name = sWord
       THEN Scoped(wordFunc(Flatten(scopes_), v.args, depth), scopes_)
  ELSE Scoped(wordlistFunc(Flatten(scopes_), v.args, depth), scopes_)

\* Func.eval inside the evaluation of a Value, vs being the variables as a
\* lookup sees them
FuncEval(vs, v, depth) == FuncEvalScoped(<<vs>>, v, depth).result

\* v.eval(ev) called from a statement.  An expansion nested deeper than there
\* are variables expands some variable within itself, and so never ends: the
\* call stack overflows.
Eval(vs, v) == ValueEval(vs, v, Cardinality(DOMAIN vs) + 1)

AssignStmt(lhs, rhs, orig_rhs, op) ==
  [k |-> "AssignStmt", lhs |-> lhs, rhs |-> rhs, orig_rhs |-> orig_rhs,
   op |-> op, is_final |-> FALSE]
\* The AssignStmt parseAssign makes of "lhs op $= rhs"
Final(stmt) == [stmt EXCEPT !.is_final = TRUE]
IfStmt(op, lhs, rhs, true_stmts, false_stmts) ==
  [k |-> "IfStmt", op |-> op, lhs |-> lhs, rhs |-> rhs,
   true_stmts |-> true_stmts, false_stmts |-> false_stmts]
NoStmt == [k |-> "none"]

\* AssignStmt.getLhsSymbol
getLhsSymbol(vs, stmt) ==
  IF stmt.lhs.k = "Literal" THEN Returned(stmt.lhs.s) ELSE Eval(vs, stmt.lhs)

\* The result of a statement: ok = FALSE is a thrown error, vars the
\* variables it leaves, executed the statements it caused to be evaluated.
Done(vs) == [ok |-> TRUE, vars |-> vs, executed |-> <<>>]
Failed(vs) == [ok |-> FALSE, vars |-> vs, executed |-> <<>>]

\* "const value = this.rhs.eval(ev); ev.setVar(name, new SimpleVar(value))"
SetSimple(vs, name, value) ==
  IF value.ok THEN Done(setVar(vs, name, SimpleVar(value.s))) ELSE Failed(vs)

\* SimpleVar.appendVar, given the evaluated v; the Var is changed in place.
AppendedSimple(vs, name, buf) ==
  IF buf.ok THEN Done([vs EXCEPT ![name].v = @ \o <<" ">> \o buf.s])
  ELSE Failed(vs)

\* An appendVar that appends to a recursive variable what v expands to now.
appendVarExpanding(vs, name, v) ==
  IF vs[name].flavor = "simple" THEN AppendedSimple(vs, name, Eval(vs, v))
  ELSE IF Eval(vs, v).ok
  THEN Done([vs EXCEPT ![name].v =
               ValueList(<<@, Literal(<<" ">>), Literal(Eval(vs, v).s)>>)])
  ELSE Failed(vs)

\* currentVar.appendVar(ev, this.rhs) of SimpleVar and of RecursiveVar
appendVar(vs, name, v) ==
  IF vs[name].flavor = "simple" THEN AppendedSimple(vs, name, Eval(vs, v))
  ELSE Done([vs EXCEPT ![name].v = ValueList(<<@, Literal(<<" ">>), v>>)])

\* An AssignStmt.eval that stores every right-hand side unevaluated.
AssignStmtStoringValue(vs, stmt, name) ==
  Done(setVar(vs, name, RecursiveVar(stmt.rhs, stmt.orig_rhs)))

\* An AssignStmt.eval whose ?= also assigns to a variable that is defined and
\* expands to nothing.
AssignStmtDefaultingEmpty(vs, stmt, name) ==
  IF stmt.op = "EQ"
  THEN Done(setVar(vs, name, RecursiveVar(stmt.rhs, stmt.orig_rhs)))
  ELSE IF stmt.op = "COLON_EQ" THEN SetSimple(vs, name, Eval(vs, stmt.rhs))
  ELSE IF stmt.op = "PLUS_EQ"
  THEN IF isDefined(getVar(vs, name)) THEN appendVar(vs, name, stmt.rhs)
       ELSE SetSimple(vs, name, Eval(vs, stmt.rhs))
  ELSE IF \/ ~isDefined(getVar(vs, name))
          \/ Eval(vs, SymRef(name)) = Returned(<<>>)
       THEN SetSimple(vs, name, Eval(vs, stmt.rhs))
       ELSE Done(vs)

\* AssignStmt.eval from "const currentVar = ev.getVar(name)" on
AssignStmtEvalNamed(vs, stmt, name) ==
  IF stmt.op = "EQ"
  THEN Done(setVar(vs, name, RecursiveVar(stmt.rhs, stmt.orig_rhs)))
  ELSE IF stmt.op = "COLON_EQ" THEN SetSimple(vs, name, Eval(vs, stmt.rhs))
  ELSE IF stmt.op = "PLUS_EQ"
  THEN IF isDefined(getVar(vs, name)) THEN appendVar(vs, name, stmt.rhs)
       ELSE SetSimple(vs, name, Eval(vs, stmt.rhs))
  ELSE IF ~isDefined(getVar(vs, name))
       THEN SetSimple(vs, name, Eval(vs, stmt.rhs))
       ELSE Done(vs)

\* AssignStmt.eval
AssignStmtEval(vs, stmt) ==
  IF getLhsSymbol(vs, stmt).ok
  THEN AssignStmtEvalNamed(vs, stmt, getLhsSymbol(vs, stmt).s)
  ELSE Failed(vs)

\* IfStmt.eval: the switch on this.op, given the evaluated lhs and rhs
Condition(vs, stmt, varName, rhsValue) ==
  LET lhsValue == VarString(getVar(vs, trim(varName.s))) IN
  IF stmt.op = "IFDEF" THEN lhsValue # <<>>
  ELSE IF stmt.op = "IFNDEF" THEN lhsValue = <<>>
  ELSE IF stmt.op = "IFEQ"
  THEN IF stmt.rhs # NullExpr THEN lhsValue = trim(rhsValue.s) ELSE FALSE
  ELSE IF stmt.rhs # NullExpr THEN lhsValue # trim(rhsValue.s) ELSE TRUE

\* The statement list IfStmt.eval goes on to execute.
Branch(vs, stmt, varName, rhsValue) ==
  IF Condition(vs, stmt, varName, rhsValue) THEN stmt.true_stmts
  ELSE stmt.false_stmts

\* The right-hand side of an IFEQ or IFNEQ, evaluated where the code does.
RhsEval(vs, stmt) ==
  IF stmt.op \in {"IFEQ", "IFNEQ"} /\ stmt.rhs # NullExpr
  THEN Eval(vs, stmt.rhs) ELSE Returned(<<>>)

\* What a statement leaves after the statements before it left res.
After(res, next) ==
  [ok |-> next.ok, vars |-> next.vars,
   executed |-> res.executed \o next.executed]

RECURSIVE StmtEval(_, _)
RECURSIVE StmtsEval(_, _)
RECURSIVE IfStmtEval(_, _)
\* stmt.eval(ev)
StmtEval(vs, stmt) ==
  After([Done(vs) EXCEPT !.executed = <<stmt>>],
        IF stmt.k = "AssignStmt" THEN AssignStmtEval(vs, stmt)
        ELSE IfStmtEval(vs, stmt))

\* "for (const stmt of stmts) stmt.eval(ev)"
StmtsEval(res, stmts) ==
  IF stmts = <<>> \/ ~res.ok THEN res
  ELSE StmtsEval(After(res, StmtEval(res.vars, Head(stmts))), Tail(stmts))

\* IfStmt.eval
IfStmtEval(vs, stmt) ==
  IF Eval(vs, stmt.lhs).ok /\ RhsEval(vs, stmt).ok
  THEN StmtsEval(Done(vs),
                 Branch(vs, stmt, Eval(vs, stmt.lhs), RhsEval(vs, stmt)))
  ELSE Failed(vs)

\* RuleStmt with the targets and prerequisites its expanded left-hand side
\* is split into; sep is "NULL" or "SEMICOLON", rhs the inline recipe or null.
RuleStmt(outputs, inputs, dc, sep, rhs) ==
  [k |-> "RuleStmt", outputs |-> outputs, inputs |-> inputs, dc |-> dc,
   sep |-> sep, rhs |-> rhs]
CommandStmt(expr) == [k |-> "CommandStmt", expr |-> expr]

\* The result of a rule or recipe statement: ok = FALSE is a thrown error,
\* rules what ev.getRules() holds afterwards.
Declaring(ok, rls) == [ok |-> ok, rules |-> rls]

\* RuleStmt.eval from "Create Rule object" on, command being the evaluated
\* inline recipe; ev.addRule(rule) appends the rule to the rules of ev.
RuleStmtEvalWith(rls, stmt, command) ==
  IF ~command.ok THEN Declaring(FALSE, rls)
  ELSE Declaring(TRUE,
         Append(rls,
                Rule(Len(rls) + 1, stmt.outputs, stmt.inputs, <<>>, <<>>,
                     IF stmt.sep = "SEMICOLON" /\ stmt.rhs # NullExpr
                     THEN <<command.s>> ELSE <<>>,
                     stmt.dc)))

RuleStmtEval(vs, rls, stmt) ==
  RuleStmtEvalWith(rls, stmt,
                   IF stmt.sep = "SEMICOLON" /\ stmt.rhs # NullExpr
                   THEN Eval(vs, stmt.rhs) ELSE Returned(<<>>))

\* A CommandStmt.eval that stamps the rule with the line of every recipe line.
CommandStmtRestamping(rls, command, lineno) ==
  IF ~command.ok THEN Declaring(FALSE, rls)
  ELSE IF Len(rls) > 0
  THEN Declaring(TRUE,
         [rls EXCEPT ![Len(rls)] =
            [@ EXCEPT !.cmds = Append(@, command.s), !.cmd_lineno = lineno]])
  ELSE Declaring(FALSE, rls)

\* CommandStmt.eval, command being the evaluated expr and lineno
\* this.loc.lineno; ev.error throws "commands commence before first target".
CommandStmtEvalWith(rls, command, lineno) ==
  IF ~command.ok THEN Declaring(FALSE, rls)
  ELSE IF Len(rls) > 0
  THEN Declaring(TRUE,
         [rls EXCEPT ![Len(rls)] =
            [@ EXCEPT !.cmds = Append(@, command.s),
                      !.cmd_lineno = IF @ = NoLine THEN lineno ELSE @]])
  ELSE Declaring(FALSE, rls)

CommandStmtEval(vs, rls, stmt, lineno) ==
  CommandStmtEvalWith(rls, Eval(vs, stmt.expr), lineno)

(***************************************************************************)
(* The makefiles and the files the model draws its inputs from.            *)
(***************************************************************************)
sAll == <<"a", "l", "l">>
sA == <<"a">>
sB == <<"b">>
sD == <<"d">>
sXO == <<"x", ".", "o">>
sXC == <<"x", ".", "c">>
sPctO == <<"%", ".", "o">>
sPctC == <<"%", ".", "c">>

\* target...: inputs | order-only inputs, followed by the recipe lines cmds
Explicit(id, outputs, inputs, order_only_inputs, cmds) ==
  Rule(id, outputs, inputs, order_only_inputs, <<>>, cmds, FALSE)

\* pattern...: inputs, followed by the recipe lines cmds
Implicit(id, patterns, inputs, cmds) ==
  Rule(id, <<>>, inputs, <<>>, patterns, cmds, FALSE)

\* var.ts: the automatic variables, for the node the CommandEvaluator holds
\* as current_dep_node_.
\* The inputs of AutoHatVar.eval: each one where it comes first.
FirstOccurrences(inputs) ==
  SelectSeq([i \in DOMAIN inputs |->
               IF \E j \in 1 .. i - 1 : inputs[j] = inputs[i]
               THEN <<>> ELSE inputs[i]],
            LAMBDA x : x # <<>>)

AutoAtVar(node) == node.output
AutoLessVar(node) ==
  IF Len(node.actual_inputs) > 0 THEN node.actual_inputs[1] ELSE <<>>
AutoHatVar(node) == JoinSpace(FirstOccurrences(node.actual_inputs))
AutoPlusVar(node) == JoinSpace(node.actual_inputs)

sEcho == <<"e", "c", "h", "o", " ">>

\* The recipe lines "echo $@ $< $^ $+" and "echo $@" as the parser hands them
\* to RuleStmt and CommandStmt.
RecipeAll ==
  ValueList(<<Literal(sEcho), SymRef(<<"@">>), Literal(<<" ">>),
              SymRef(<<"<">>), Literal(<<" ">>), SymRef(<<"^">>),
              Literal(<<" ">>), SymRef(<<"+">>)>>)
RecipeAt == ValueList(<<Literal(sEcho), SymRef(<<"@">>)>>)

\* "const command = this.rhs.eval(ev); rule.cmds.push(command)" of
\* RuleStmt.eval and CommandStmt.eval, in a makefile that assigns no variable:
\* the recipe line is expanded when the statement is evaluated, and the
\* automatic variables are registered later, by the CommandEvaluator the
\* Executor creates.
RecipeLine(expr) == Eval(<<>>, expr).s

\* all: a b a ; echo $@ $< $^ $+      a b: ; echo $@
AutoVarRules ==
  << Explicit(1, <<sAll>>, <<sA, sB, sA>>, <<>>, << RecipeLine(RecipeAll) >>),
     Explicit(2, <<sA, sB>>, <<>>, <<>>, << RecipeLine(RecipeAt) >>) >>

\* Each makefile: the rules its evaluation records, the target lists it may
\* be built with, and the files whose state on disk varies.
Makefiles ==
  << \* all: a b ; p      a b: ; q
     [rules |-> << Explicit(1, <<sAll>>, <<sA, sB>>, <<>>, << <<"p">> >>),
                   Explicit(2, <<sA, sB>>, <<>>, <<>>, << <<"q">> >>) >>,
      targets |-> { <<>>, <<sB>>, <<sB, sAll>>, <<sAll, sB>> },
      files |-> {sAll, sA, sB}],
     \* all: a b      a: d ; p      b: | d ; q
     [rules |-> << Explicit(1, <<sAll>>, <<sA, sB>>, <<>>, <<>>),
                   Explicit(2, <<sA>>, <<sD>>, <<>>, << <<"p">> >>),
                   Explicit(3, <<sB>>, <<>>, <<sD>>, << <<"q">> >>) >>,
      targets |-> { <<>>, <<sB>> },
      files |-> {sA, sB, sD}],
     \* all: a | b d ; p      a: ; q      b: d ; r      d:
     [rules |-> << Explicit(1, <<sAll>>, <<sA>>, <<sB, sD>>, << <<"p">> >>),
                   Explicit(2, <<sA>>, <<>>, <<>>, << <<"q">> >>),
                   Explicit(3, <<sB>>, <<sD>>, <<>>, << <<"r">> >>),
                   Explicit(4, <<sD>>, <<>>, <<>>, <<>>) >>,
      targets |-> { <<>> },
      files |-> {sAll, sA, sB}],
     \* .PHONY: all a      all: a ; p      a: b ; q
     [rules |-> << Explicit(1, <<sPHONY>>, <<sAll, sA>>, <<>>, <<>>),
                   Explicit(2, <<sAll>>, <<sA>>, <<>>, << <<"p">> >>),
                   Explicit(3, <<sA>>, <<sB>>, <<>>, << <<"q">> >>) >>,
      targets |-> { <<>>, <<sA>> },
      files |-> {sAll, sA, sB}],
     \* all: a ; -p ; @q ; r      (a has no rule)
     [rules |-> << Explicit(1, <<sAll>>, <<sA>>, <<>>,
                            << <<"-", "p">>, <<"@", "q">>, <<"r">> >>) >>,
      targets |-> { <<>>, <<sA>> },
      files |-> {sAll, sA}],
     \* all: x.o ; p      %.o: %.c ; q      %.o: %.d ; r
     [rules |-> << Explicit(1, <<sAll>>, <<sXO>>, <<>>, << <<"p">> >>),
                   Implicit(2, <<sPctO>>, <<sPctC>>, << <<"q">> >>),
                   Implicit(3, <<sPctO>>, <<<<"%", ".", "d">>>>, << <<"r">> >>) >>,
      targets |-> { <<>>, <<sXO>> },
      files |-> {sAll, sXO, sXC}],
     \* a: b ; p      b: a ; q
     [rules |-> << Explicit(1, <<sA>>, <<sB>>, <<>>, << <<"p">> >>),
                   Explicit(2, <<sB>>, <<sA>>, <<>>, << <<"q">> >>) >>,
      targets |-> { <<>>, <<sB>> },
      files |-> {sA, sB}],
     [rules |-> AutoVarRules,
      targets |-> { <<>>, <<sB>> },
      files |-> {sAll, sB}]
  >>

\* a: b      a b: ; p      a:: ; echo $@
RuleStmts ==
  { RuleStmt(<<sA>>, <<sB>>, FALSE, "NULL", NullExpr),
    RuleStmt(<<sA, sB>>, <<>>, FALSE, "SEMICOLON", Literal(<<"p">>)),
    RuleStmt(<<sA>>, <<>>, TRUE, "SEMICOLON", RecipeAt) }

\* The recipe lines q, r and echo $@
CommandStmts ==
  { CommandStmt(Literal(<<"q">>)), CommandStmt(Literal(<<"r">>)),
    CommandStmt(RecipeAt) }

\* The time stamp the files written during the build get.
Now == MaxTs + 1

(***************************************************************************)
(* The statements the evaluator model draws its inputs from.               *)
(***************************************************************************)
\* The number of top-level statements evaluated in a run.
MaxStmts == 3

vA == <<"A">>
vB == <<"B">>
vR == <<"R">>
sFoo == <<"f", "o", "o">>
sBaz == <<"b", "a", "z">>
sBar == <<" ", "b", "a", "r">>
sOne == <<"1">>

\* Right-hand sides with their source text: foo, baz, $(B) and $(A) bar
RightHandSides ==
  { [rhs |-> Literal(sFoo), orig |-> sFoo],
    [rhs |-> Literal(sBaz), orig |-> sBaz],
    [rhs |-> SymRef(vB), orig |-> <<"$", "(", "B", ")">>],
    [rhs |-> ValueList(<<SymRef(vA), Literal(sBar)>>),
     orig |-> <<"$", "(", "A", ")">> \o sBar] }

AssignOps == {"EQ", "COLON_EQ", "PLUS_EQ", "QUESTION_EQ"}

\* A = $= foo and A := $= foo
FinalAssignStmts ==
  { Final(AssignStmt(Literal(vA), Literal(sFoo), sFoo, op)) :
      op \in {"EQ", "COLON_EQ"} }

\* A = ..., A := ..., A += ..., A ?= ... and the same for B, and the final
\* assignments
AssignStmts ==
  { AssignStmt(Literal(name), r.rhs, r.orig, op) :
      name \in {vA, vB}, r \in RightHandSides, op \in AssignOps }
  \cup FinalAssignStmts

\* The branches of every conditional: R := t, else R := f
TrueStmts == << AssignStmt(Literal(vR), Literal(<<"t">>), <<"t">>, "COLON_EQ") >>
FalseStmts == << AssignStmt(Literal(vR), Literal(<<"f">>), <<"f">>, "COLON_EQ") >>

\* ifeq/ifneq (1,1), ($(A),foo), (A,foo), ($(B),$(A) bar); ifdef/ifndef A, $(B)
IfStmts ==
  { IfStmt(op, c[1], c[2], TrueStmts, FalseStmts) :
      op \in {"IFEQ", "IFNEQ"},
      c \in { <<Literal(sOne), Literal(sOne)>>,
              <<SymRef(vA), Literal(sFoo)>>,
              <<Literal(vA), Literal(sFoo)>>,
              <<SymRef(vB), ValueList(<<SymRef(vA), Literal(sBar)>>)>> } }
  \cup
  { IfStmt(op, lhs, NullExpr, TrueStmts, FalseStmts) :
      op \in {"IFDEF", "IFNDEF"}, lhs \in {Literal(vA), SymRef(vB)} }

(***************************************************************************)
(* State.                                                                  *)
(***************************************************************************)
VARIABLES
  rules,          \* Evaluator: the rules recorded by evaluating the makefile
  targets,        \* the requested targets (flags.targets)
  fs,             \* the file system: file name -> mtime, kNotExist if absent
  phase,          \* "init", "exec", "done" or "failed"
  error,          \* the error that ended the run, "" if none
  nodes,          \* DepBuilder.done_: output symbol -> DepNode
  roots,          \* the names of the NamedDepNodes build returned
  rootIdx,        \* exec: the next root of "for (const root of roots)"
  done_,          \* Executor.done_: output symbol -> time stamp or kProcessing
  stack,          \* the activations of Executor.execNode, innermost last
  num_commands_,  \* Executor.num_commands_
  log,            \* history: what the executor did, in order
  env,            \* Evaluator: the variables, name -> Var
  last,           \* history: the top-level statement evaluated last
  prev,           \* history: env before that statement
  executed,       \* history: the statements that statement caused to be evaluated
  assigned,       \* history: name -> its latest = or := and what the
                  \*   right-hand side expanded to then
  appended,       \* history: name -> its latest +=, the Var it had before
                  \*   and what the right-hand side expanded to then
  finals,         \* history: name -> what it expanded to after its latest
                  \*   final assignment ($=)
  nstmts,         \* the number of top-level statements evaluated
  parser,         \* the Parser that parses the makefile
  parsed,         \* history: the lines parse has processed, each with the
                  \*   Parser before and after it
  scopes,         \* Evaluator: the scopes above the global variables,
                  \*   innermost last
  applied,        \* history: the function call evaluated last, the scopes
                  \*   before it and its result
  isSilentMode    \* flags.isSilentMode: the run was started with -s

parseVars == <<parser, parsed>>
funcVars == <<scopes, applied>>
flagVars == <<isSilentMode>>
evalVars == <<env, last, prev, executed, assigned, appended, finals, nstmts,
              parseVars, funcVars, flagVars>>
execVars == <<rules, targets, fs, nodes, roots, rootIdx, done_, stack,
              num_commands_, log>>

vars == <<rules, targets, fs, phase, error, nodes, roots, rootIdx, done_,
          stack, num_commands_, log, env, last, prev, executed, assigned,
          appended, finals, nstmts, parser, parsed, scopes, applied,
          isSilentMode>>

\* No statement was evaluated.
NothingEvaluated ==
  /\ env = <<>>
  /\ last = NoStmt
  /\ prev = <<>>
  /\ executed = <<>>
  /\ assigned = <<>>
  /\ appended = <<>>
  /\ finals = <<>>
  /\ nstmts = 0
  /\ parser = [phase |-> "none"]
  /\ parsed = <<>>
  /\ scopes = <<>>
  /\ applied = <<>>

FileStates(files) ==
  {f \in [files -> {kNotExist} \cup (1 .. MaxTs)] : TRUE}

Init ==
  /\ \E m \in DOMAIN Makefiles :
       /\ rules = Makefiles[m].rules
       /\ targets \in Makefiles[m].targets
       /\ fs \in FileStates(Makefiles[m].files)
  /\ phase = "init"
  /\ error = ""
  /\ nodes = <<>>
  /\ roots = <<>>
  /\ rootIdx = 1
  /\ done_ = <<>>
  /\ stack = <<>>
  /\ num_commands_ = 0
  /\ log = <<>>
  /\ isSilentMode \in BOOLEAN
  /\ NothingEvaluated

(***************************************************************************)
(* exec.ts: the executor.                                                  *)
(***************************************************************************)
\* Executor.getTimestamp(path)
getTimestamp(path) == IF path \in DOMAIN fs THEN fs[path] ELSE kNotExist

\* An existsSync that finds no file.
neverExistsSync(path) == FALSE

\* fs.existsSync(path)
existsSync(path) == getTimestamp(path) # kNotExist

\* Evaluator.avoid_io()
avoid_io == FALSE

\* The entries of log.
\* execNode(n, neededBy) was called; edge is "root", "order_only" or "dep"
Called(n, neededBy, edge) ==
  [t |-> "call", n |-> n, neededBy |-> neededBy, edge |-> edge]
\* the call returned the time stamp recorded in done_ (kProcessing: the
\* "Circular dependency" warning)
Memo(n, neededBy, ts) == [t |-> "memo", n |-> n, neededBy |-> neededBy, ts |-> ts]
\* the call went on to "ExecNode(n) for neededBy", the file having outputTs
Entered(n, outputTs) == [t |-> "ExecNode", n |-> n, outputTs |-> outputTs]
\* "Check if rebuild is needed" decided t ("skip" or "eval") for frame f
Decided(t, f) ==
  [t |-> t, n |-> f.n, outputTs |-> f.outputTs, latest |-> f.latest,
   rets |-> f.rets, depRets |-> f.depRets]
\* the i-th command of n was run and exited with exitCode, after
\* "if (command.echo) console.log(command.cmd)"
Ran(n, i, command, exitCode) ==
  [t |-> "run", n |-> n, i |-> i, cmd |-> command.cmd, exitCode |-> exitCode,
   echoed |-> command.echo]
\* execNode(n) returned after its last command
Built(n) == [t |-> "built", n |-> n]

\* the sentinel of n is left in place
setDoneNever(done, n, ts) == done
\* this.done_.set(n.output, outputTs): the sentinel of n gives way to the
\* time stamp execNode returns
setDone(done, n, ts) == [done EXCEPT ![n] = ts]

Top == stack[Len(stack)]
Pop == SubSeq(stack, 1, Len(stack) - 1)

\* A caller's loop that steps over the dependency after the one that returned.
ResumeSkippingNext(stk, ts) ==
  IF stk = <<>> THEN stk
  ELSE [stk EXCEPT ![Len(stk)] =
          [@ EXCEPT !.latest = IF @ < ts THEN ts ELSE @,
                    !.i = @ + 2,
                    !.rets = Append(@, ts),
                    !.depRets = IF stk[Len(stk)].pc = "deps"
                                THEN Append(@, ts) ELSE @]]

\* The caller's loop after execNode returned ts: "if (latest < ts) latest = ts"
\* and the next dependency.  exec ignores the value returned for a root.
\* rets and depRets remember the values returned to the frame.
Resume(stk, ts) ==
  IF stk = <<>> THEN stk
  ELSE [stk EXCEPT ![Len(stk)] =
          [@ EXCEPT !.latest = IF @ < ts THEN ts ELSE @,
                    !.i = @ + 1,
                    !.rets = Append(@, ts),
                    !.depRets = IF stk[Len(stk)].pc = "deps"
                                THEN Append(@, ts) ELSE @]]

\* "Check if target exists and has no rule"
NoRuleToMake(n, outputTs) ==
  ~nodes[n].has_rule /\ outputTs = kNotExist /\ ~nodes[n].is_phony

\* A rebuild check with > in place of >=.
StrictlyNewer(n, outputTs, latest) == outputTs > latest /\ ~nodes[n].is_phony

\* "Check if rebuild is needed": the commands are skipped.
UpToDate(n, outputTs, latest) == outputTs >= latest /\ ~nodes[n].is_phony

\* The head of execNode(n, neededBy), called with stk the stack of the
\* caller: the memo lookup, the PROCESSING mark, the time stamp, the
\* "No rule to make target" check.
\* A memo that answers only for the nodes being processed.
foundInProcessing(done, n) == n \in DOMAIN done /\ done[n] = kProcessing

\* const found = this.done_.get(n.output); found !== undefined
foundIn(done, n) == n \in DOMAIN done

ExecNodeCall(stk, n, neededBy, edge) ==
  IF foundIn(done_, n)
  THEN /\ stack' = Resume(stk, done_[n])
       /\ log' = log \o <<Called(n, neededBy, edge), Memo(n, neededBy, done_[n])>>
       /\ UNCHANGED <<done_, phase, error>>
  ELSE LET outputTs == getTimestamp(n) IN
       /\ done_' = (n :> kProcessing) @@ done_
       /\ log' = log \o <<Called(n, neededBy, edge), Entered(n, outputTs)>>
       /\ IF NoRuleToMake(n, outputTs)
          THEN /\ phase' = "failed"
               /\ error' = "No rule to make target"
               /\ stack' = stk
          ELSE /\ stack' = Append(stk, [n |-> n, neededBy |-> neededBy,
                                        pc |-> "order_onlys", i |-> 1,
                                        latest |-> kProcessing,
                                        outputTs |-> outputTs,
                                        commands |-> <<>>,
                                        rets |-> <<>>, depRets |-> <<>>])
               /\ UNCHANGED <<phase, error>>

\* makeDep: the dependency graph of the requested targets.
Planned(plan) ==
  IF plan.ok
  THEN /\ nodes' = plan.done_
       /\ roots' = plan.roots
       /\ phase' = "exec"
       /\ UNCHANGED error
  ELSE /\ phase' = "failed"
       /\ error' = "build"
       /\ UNCHANGED <<nodes, roots>>

Build ==
  /\ phase = "init"
  /\ Planned(makeDep(rules, targets))
  /\ UNCHANGED <<evalVars, rules, targets, fs, rootIdx, done_, stack, num_commands_, log>>

\* exec: executor.execNode(root.node, null) for the next root
StartRoot ==
  /\ phase = "exec" /\ stack = <<>> /\ rootIdx <= Len(roots)
  /\ rootIdx' = rootIdx + 1
  /\ ExecNodeCall(<<>>, roots[rootIdx], <<>>, "root")
  /\ UNCHANGED <<evalVars, rules, targets, fs, nodes, roots, num_commands_>>

\* An order-only dependency whose file exists: continue
OrderOnlySkip ==
  /\ phase = "exec" /\ stack # <<>> /\ Top.pc = "order_onlys"
  /\ Top.i <= Len(nodes[Top.n].order_onlys)
  /\ existsSync(nodes[Top.n].order_onlys[Top.i])
  /\ stack' = [stack EXCEPT ![Len(stack)].i = @ + 1]
  /\ UNCHANGED <<evalVars, rules, targets, fs, phase, error, nodes, roots, rootIdx,
                 done_, num_commands_, log>>

\* An order-only dependency whose file does not exist: execNode(d.node, n.output)
OrderOnlyExec ==
  /\ phase = "exec" /\ stack # <<>> /\ Top.pc = "order_onlys"
  /\ Top.i <= Len(nodes[Top.n].order_onlys)
  /\ ~existsSync(nodes[Top.n].order_onlys[Top.i])
  /\ ExecNodeCall(stack, nodes[Top.n].order_onlys[Top.i], Top.n, "order_only")
  /\ UNCHANGED <<evalVars, rules, targets, fs, nodes, roots, rootIdx, num_commands_>>

\* The end of the order-only loop
OrderOnlyDone ==
  /\ phase = "exec" /\ stack # <<>> /\ Top.pc = "order_onlys"
  /\ Top.i > Len(nodes[Top.n].order_onlys)
  /\ stack' = [stack EXCEPT ![Len(stack)] = [@ EXCEPT !.pc = "deps", !.i = 1]]
  /\ UNCHANGED <<evalVars, rules, targets, fs, phase, error, nodes, roots, rootIdx,
                 done_, num_commands_, log>>

\* A regular dependency: execNode(d.node, n.output)
DepExec ==
  /\ phase = "exec" /\ stack # <<>> /\ Top.pc = "deps"
  /\ Top.i <= Len(nodes[Top.n].deps)
  /\ ExecNodeCall(stack, nodes[Top.n].deps[Top.i], Top.n, "dep")
  /\ UNCHANGED <<evalVars, rules, targets, fs, nodes, roots, rootIdx, num_commands_>>

\* After the dependencies, no rebuild is needed: record and return outputTs
SkipCommands ==
  /\ phase = "exec" /\ stack # <<>> /\ Top.pc = "deps"
  /\ Top.i > Len(nodes[Top.n].deps)
  /\ UpToDate(Top.n, Top.outputTs, Top.latest)
  /\ done_' = setDone(done_, Top.n, Top.outputTs)
  /\ stack' = Resume(Pop, Top.outputTs)
  /\ log' = Append(log, Decided("skip", Top))
  /\ UNCHANGED <<evalVars, rules, targets, fs, phase, error, nodes, roots, rootIdx,
                 num_commands_>>

\* After the dependencies, a rebuild is needed: commands = this.ce_.eval(n)
EvalCommands ==
  /\ phase = "exec" /\ stack # <<>> /\ Top.pc = "deps"
  /\ Top.i > Len(nodes[Top.n].deps)
  /\ ~UpToDate(Top.n, Top.outputTs, Top.latest)
  /\ stack' = [stack EXCEPT ![Len(stack)] =
                 [@ EXCEPT !.pc = "cmds", !.i = 1,
                           !.commands = CommandEvaluatorEval(nodes[Top.n])]]
  /\ log' = Append(log, Decided("eval", Top))
  /\ UNCHANGED <<evalVars, rules, targets, fs, phase, error, nodes, roots, rootIdx,
                 done_, num_commands_>>

\* What a recipe line may do to the files: nothing, write the target of its
\* node, or remove one of the inputs of its node.
Effects(n) ==
  {[op |-> "none", file |-> n], [op |-> "write", file |-> n]}
  \cup {[op |-> "remove", file |-> f] :
          f \in Range(nodes[n].actual_inputs)
                \cup Range(nodes[n].actual_order_only_inputs)}

ApplyEffect(files, eff) ==
  IF eff.op = "write" THEN (eff.file :> Now) @@ files
  ELSE IF eff.op = "remove" THEN (eff.file :> kNotExist) @@ files
  ELSE files

\* The shell's exit status and what the command did to the files.
Outcomes(n) ==
  {[exitCode |-> 0, eff |-> e] : e \in Effects(n)}
  \cup {[exitCode |-> 1, eff |-> [op |-> "none", file |-> n]]}

\* One turn of "for (const command of commands)": runCommandSync and the
\* check of its exit code
RunCommand ==
  /\ phase = "exec" /\ stack # <<>> /\ Top.pc = "cmds"
  /\ Top.i <= Len(Top.commands)
  /\ num_commands_' = num_commands_ + 1
  /\ IF avoid_io
     THEN /\ stack' = [stack EXCEPT ![Len(stack)].i = @ + 1]
          /\ log' = Append(log, Ran(Top.n, Top.i, Top.commands[Top.i], 0))
          /\ UNCHANGED <<fs, phase, error>>
     ELSE \E result \in Outcomes(Top.n) :
          /\ fs' = ApplyEffect(fs, result.eff)
          /\ log' = Append(log, Ran(Top.n, Top.i, Top.commands[Top.i],
                                      result.exitCode))
          /\ IF result.exitCode # 0 /\ ~Top.commands[Top.i].ignore_error
             THEN /\ phase' = "failed"
                  /\ error' = "command"
                  /\ UNCHANGED stack
             ELSE /\ stack' = [stack EXCEPT ![Len(stack)].i = @ + 1]
                  /\ UNCHANGED <<phase, error>>
  /\ UNCHANGED <<evalVars, rules, targets, nodes, roots, rootIdx, done_>>

\* After the last command: record and return outputTs
FinishNode ==
  /\ phase = "exec" /\ stack # <<>> /\ Top.pc = "cmds"
  /\ Top.i > Len(Top.commands)
  /\ done_' = setDone(done_, Top.n, Top.outputTs)
  /\ stack' = Resume(Pop, Top.outputTs)
  /\ log' = Append(log, Built(Top.n))
  /\ UNCHANGED <<evalVars, rules, targets, fs, phase, error, nodes, roots, rootIdx,
                 num_commands_>>

\* exec: after the last root ("Nothing to be done" if no command was counted)
ExecDone ==
  /\ phase = "exec" /\ stack = <<>> /\ rootIdx > Len(roots)
  /\ phase' = "done"
  /\ UNCHANGED <<evalVars, rules, targets, fs, error, nodes, roots, rootIdx, done_,
                 stack, num_commands_, log>>

Next ==
  \/ Build
  \/ StartRoot
  \/ OrderOnlySkip
  \/ OrderOnlyExec
  \/ OrderOnlyDone
  \/ DepExec
  \/ SkipCommands
  \/ EvalCommands
  \/ RunCommand
  \/ FinishNode
  \/ ExecDone

Spec == Init /\ [][Next]_vars

(***************************************************************************)
(* The evaluator: the statements of a makefile, evaluated one by one.      *)
(***************************************************************************)
InitEval ==
  /\ rules = <<>>
  /\ targets = <<>>
  /\ fs = <<>>
  /\ phase = "eval"
  /\ error = ""
  /\ nodes = <<>>
  /\ roots = <<>>
  /\ rootIdx = 1
  /\ done_ = <<>>
  /\ stack = <<>>
  /\ num_commands_ = 0
  /\ log = <<>>
  /\ isSilentMode = FALSE
  /\ NothingEvaluated

\* The names the statements in stmts assign to.
AssignedNames(stmts) ==
  {stmts[i].lhs.s : i \in {j \in DOMAIN stmts : stmts[j].k = "AssignStmt"}}

Forget(names) == [n \in DOMAIN assigned \ names |-> assigned[n]]

\* What the history remembers once stmt was evaluated and caused stmts to be.
Remember(stmt, stmts) ==
  IF /\ stmt.k = "AssignStmt" /\ stmt.op \in {"EQ", "COLON_EQ"}
     /\ ~lookup(env, stmt.lhs.s).readonly
  THEN (stmt.lhs.s :> [op |-> stmt.op, rhs |-> stmt.rhs,
                       at |-> Eval(env, stmt.rhs)]) @@ assigned
  ELSE IF stmt.k = "AssignStmt" /\ stmt.op = "QUESTION_EQ" THEN assigned
  ELSE Forget(AssignedNames(stmts))

\* What the history remembers of += once stmt was evaluated and caused stmts
\* to be.
RememberAppend(stmt, stmts) ==
  IF stmt.k = "AssignStmt" /\ stmt.op = "PLUS_EQ"
  THEN (stmt.lhs.s :> [was |-> lookup(env, stmt.lhs.s), rhs |-> stmt.rhs,
                       at |-> Eval(env, stmt.rhs)]) @@ appended
  ELSE IF stmt.k = "AssignStmt" /\ stmt.op = "QUESTION_EQ" THEN appended
  ELSE [n \in DOMAIN appended \ AssignedNames(stmts) |-> appended[n]]

\* What the history remembers of the final assignments once stmt was
\* evaluated and left the variables vs.
RememberFinal(stmt, vs) ==
  IF stmt.k = "AssignStmt" /\ stmt.is_final
  THEN (stmt.lhs.s :> Eval(vs, SymRef(stmt.lhs.s))) @@ finals
  ELSE finals

\* The state after the top-level statement stmt, result being what its eval
\* left; a thrown error ends the run.
Evaluated(stmt, result) ==
  /\ env' = result.vars
  /\ last' = stmt
  /\ prev' = env
  /\ executed' = result.executed
  /\ nstmts' = nstmts + 1
  /\ IF result.ok
     THEN /\ assigned' = Remember(stmt, result.executed)
          /\ appended' = RememberAppend(stmt, result.executed)
          /\ finals' = RememberFinal(stmt, result.vars)
          /\ UNCHANGED <<phase, error>>
     ELSE /\ assigned' = <<>>
          /\ appended' = <<>>
          /\ finals' = <<>>
          /\ phase' = "failed"
          /\ error' = "eval"
  /\ UNCHANGED <<execVars, parseVars, funcVars, flagVars>>

\* stmt.eval(ev) for the next statement, an assignment
EvalAssignStmt ==
  /\ phase = "eval" /\ nstmts < MaxStmts
  /\ \E stmt \in AssignStmts : Evaluated(stmt, StmtEval(env, stmt))

\* stmt.eval(ev) for the next statement, a conditional
EvalIfStmt ==
  /\ phase = "eval" /\ nstmts < MaxStmts
  /\ \E stmt \in IfStmts : Evaluated(stmt, StmtEval(env, stmt))

\* Var.setReadOnly() on a variable that is set (what the evaluation of
\* a statement such as ".KATI_READONLY := name" does)
SetReadOnly ==
  /\ phase = "eval" /\ nstmts < MaxStmts
  /\ \E name \in DOMAIN env :
       /\ ~env[name].readonly
       /\ env' = [env EXCEPT ![name].readonly = TRUE]
       /\ last' = [k |-> "setReadOnly", name |-> name]
  /\ prev' = env
  /\ executed' = <<>>
  /\ nstmts' = nstmts + 1
  /\ UNCHANGED <<assigned, appended, finals, phase, error, execVars,
                 parseVars, funcVars, flagVars>>

NextEval ==
  \/ EvalAssignStmt
  \/ EvalIfStmt
  \/ SetReadOnly

SpecEval == InitEval /\ [][NextEval]_vars

\* $(name) as it expands now.
Expansion(name) == Eval(env, SymRef(name))

\* C4: a variable set by V := e expands to what e expanded to when the
\* assignment was evaluated, whatever was assigned to other variables since;
\* a variable set by V = e expands to what e expands to now.
C4_SimpleAndRecursiveVars ==
  \A name \in DOMAIN assigned :
    IF assigned[name].op = "COLON_EQ"
    THEN Expansion(name) = assigned[name].at
    ELSE Expansion(name) = Eval(env, assigned[name].rhs)

\* A := foo, B = $(A) bar, then A := baz: $(B) was 'foo bar' and is 'baz bar'.
C4_Witness ==
  /\ nstmts = 3
  /\ last = AssignStmt(Literal(vA), Literal(sBaz), sBaz, "COLON_EQ")
  /\ vA \in DOMAIN prev /\ prev[vA] = SimpleVar(sFoo)
  /\ vB \in DOMAIN assigned /\ assigned[vB].op = "EQ"
  /\ assigned[vB].rhs = ValueList(<<SymRef(vA), Literal(sBar)>>)
  /\ Eval(prev, SymRef(vB)) = Returned(sFoo \o sBar)
  /\ Expansion(vB) = Returned(sBaz \o sBar)

\* C5: ifeq (a,b) executes its true branch if the expansions of a and b are
\* equal and its false branch if not, ifneq the other way round, and never
\* both or neither.
C5_IfeqComparesExpansions ==
  (last.k = "IfStmt" /\ phase = "eval" /\ last.op \in {"IFEQ", "IFNEQ"}) =>
    LET equal == Eval(prev, last.lhs) = Eval(prev, last.rhs)
    IN executed = <<last>> \o (IF equal = (last.op = "IFEQ")
                               THEN last.true_stmts ELSE last.false_stmts)

(***************************************************************************)
(* Properties of the executor and of the dependency builder, over the      *)
(* history log.                                                            *)
(***************************************************************************)
\* The greatest of kProcessing and the time stamps in rets.
MaxReturned(rets) ==
  CHOOSE m \in {kProcessing} \cup Range(rets) :
    \A r \in {kProcessing} \cup Range(rets) : r <= m

\* The indexes of the commands of n that were run, in the order they ran.
RunIndexes(n) ==
  LET IsRunOfN(e) == e.t = "run" /\ e.n = n
      R == SelectSeq(log, IsRunOfN)
  IN [k \in DOMAIN R |-> R[k].i]

\* All the commands of n were run, once each and in order.
RanAllCommands(n) ==
  /\ Len(RunIndexes(n)) = Len(CommandEvaluatorEval(nodes[n]))
  /\ \A i \in DOMAIN RunIndexes(n) : RunIndexes(n)[i] = i

\* execNode(n) returned after its last command, later than log[k].
BuiltAfter(n, k) ==
  \E j \in DOMAIN log : j > k /\ log[j].t = "built" /\ log[j].n = n

\* The nodes execNode was called on for the regular dependencies of n.
DepCalls(n) ==
  LET IsDepCall(e) == e.t = "call" /\ e.neededBy = n /\ e.edge = "dep"
      C == SelectSeq(log, IsDepCall)
  IN [k \in DOMAIN C |-> C[k].n]

IsPrefix(s, t) == Len(s) <= Len(t) /\ \A i \in DOMAIN s : s[i] = t[i]

\* Before log[k], execNode(d) returned: d was skipped or built, or the call
\* from n found d in progress (a cycle through n).
Settled(d, n, k) ==
  \E j \in 1 .. k - 1 :
    /\ log[j].n = d
    /\ \/ log[j].t \in {"skip", "built"}
       \/ log[j].t = "memo" /\ log[j].neededBy = n /\ log[j].ts = kProcessing

\* n is a prerequisite of .PHONY in the makefile.
PhonyListed(n) ==
  \E r \in Range(rules) : sPHONY \in Range(r.outputs) /\ n \in Range(r.inputs)

\* n is a target of an explicit rule of the makefile.
HasExplicitRule(n) == \E r \in Range(rules) : n \in Range(r.outputs)

\* The recipe line starts with prefix characters among which there is a '-'.
DashPrefixed(line) ==
  \E p \in DOMAIN line :
    /\ line[p] = "-"
    /\ \A q \in 1 .. p - 1 : line[q] \in {"@", "+", "-", " ", "\t"}

\* C1: execNode runs none of the commands of a node that is not phony and
\* whose own time stamp is at least latest, the greatest time stamp its
\* dependencies returned; it runs all of them (up to a failing command that
\* ends the build) when the file is missing or older than latest.
C1_SkipIffUpToDate ==
  \A k \in DOMAIN log :
    LET e == log[k] IN
    /\ e.t \in {"skip", "eval"} =>
         /\ e.latest = MaxReturned(e.rets)
         /\ (~nodes[e.n].is_phony /\ e.outputTs >= e.latest) => e.t = "skip"
         /\ (e.outputTs = kNotExist \/ e.outputTs < e.latest) => e.t = "eval"
    /\ e.t = "skip" => Len(RunIndexes(e.n)) = 0
    /\ e.t = "built" => RanAllCommands(e.n)
    /\ (e.t = "eval" /\ phase = "done") => BuiltAfter(e.n, k)

\* A node whose file is older than a dependency was built with at least one
\* command, and a node at least as new as latest was skipped.
C1_Witness ==
  /\ \E k \in DOMAIN log :
       /\ log[k].t = "eval" /\ ~nodes[log[k].n].is_phony
       /\ log[k].outputTs # kNotExist /\ log[k].outputTs < log[k].latest
       /\ BuiltAfter(log[k].n, k) /\ Len(RunIndexes(log[k].n)) > 0
  /\ \E k \in DOMAIN log :
       /\ log[k].t = "skip" /\ log[k].outputTs >= log[k].latest
       /\ Len(nodes[log[k].n].cmds) > 0

\* C2: a command of a node runs only after execNode was called, in the
\* declared order, on all the regular dependencies of the node and each call
\* returned; the commands of the node run one after the other, in the order
\* of cmds, with nothing in between.
C2_DepsThenCommandsInOrder ==
  \A k \in DOMAIN log :
    LET e == log[k] IN
    /\ (e.t = "call" /\ e.edge = "dep") =>
         IsPrefix(DepCalls(e.neededBy), nodes[e.neededBy].actual_inputs)
    /\ e.t = "run" =>
         /\ DepCalls(e.n) = nodes[e.n].actual_inputs
         /\ \A d \in Range(nodes[e.n].actual_inputs) : Settled(d, e.n, k)
         /\ e.i \in DOMAIN nodes[e.n].cmds
         /\ hasSuffix(nodes[e.n].cmds[e.i], e.cmd)
         /\ log[k - 1].n = e.n
         /\ IF e.i = 1 THEN log[k - 1].t = "eval"
            ELSE log[k - 1].t = "run" /\ log[k - 1].i = e.i - 1

\* 'all: a b' with a recipe for each: the commands ran were those of a, then
\* of b, then of all.
C2_Witness ==
  LET IsRun(e) == e.t = "run"
      R == SelectSeq(log, IsRun)
  IN /\ phase = "done"
     /\ Len(R) = 3 /\ R[1].n = sA /\ R[2].n = sB /\ R[3].n = sAll
     /\ nodes[sAll].actual_inputs = <<sA, sB>>

\* C3: a command that exits with a non-zero status ends the build, no later
\* command of any node being run, unless its recipe line has the '-' prefix;
\* with the prefix the next command of the node, and the rest of the build,
\* still run.
C3_IgnoreErrorOrAbort ==
  /\ num_commands_ = Cardinality({k \in DOMAIN log : log[k].t = "run"})
  /\ \A k \in DOMAIN log :
       (log[k].t = "run" /\ log[k].exitCode # 0) =>
         IF DashPrefixed(nodes[log[k].n].cmds[log[k].i])
         THEN /\ phase = "failed" => k < Len(log)
              /\ k < Len(log) =>
                   /\ log[k + 1].n = log[k].n
                   /\ \/ log[k + 1].t = "run" /\ log[k + 1].i = log[k].i + 1
                      \/ log[k + 1].t = "built"
              /\ phase = "done" => BuiltAfter(log[k].n, k) /\ RanAllCommands(log[k].n)
         ELSE k = Len(log) /\ phase = "failed" /\ error = "command"

\* A command with the '-' prefix failed, the next command of the node ran
\* and the build came to its end.
C3_Witness ==
  /\ phase = "done"
  /\ \E k \in DOMAIN log :
       /\ log[k].t = "run" /\ log[k].exitCode # 0
       /\ k < Len(log) /\ log[k + 1].t = "run" /\ log[k + 1].n = log[k].n

\* The pattern rules of the makefile that match target t and whose inputs,
\* with the stem of t in place of %, are all on disk or targets of a rule.
Applicable(t) ==
  {i \in DOMAIN rules :
     /\ Len(rules[i].output_patterns) = 1
     /\ match(rules[i].output_patterns[1], t)
     /\ \A j \in DOMAIN rules[i].inputs :
          LET input == appendSubst(rules[i].output_patterns[1], t,
                                   rules[i].inputs[j])
          IN \/ input \in DOMAIN fs /\ fs[input] # kNotExist
             \/ HasExplicitRule(input)}

\* C6: a target with no explicit rule with commands, for which a pattern rule
\* is applicable, gets from build the commands, the output pattern and the
\* inputs (the stem substituted) of the applicable pattern rule added last.
C6_PatternRuleFillsNode ==
  (phase = "exec" /\ log = <<>>) =>
    \A t \in DOMAIN nodes :
      (/\ ~\E r \in Range(rules) : t \in Range(r.outputs) /\ Len(r.cmds) > 0
       /\ Applicable(t) # {}) =>
        LET r == rules[CHOOSE i \in Applicable(t) : \A j \in Applicable(t) : j <= i]
        IN /\ nodes[t].cmds = r.cmds
           /\ nodes[t].output_pattern = r.output_patterns[1]
           /\ nodes[t].actual_inputs =
                [j \in DOMAIN r.inputs |->
                   appendSubst(r.output_patterns[1], t, r.inputs[j])]

\* C7: execNode on a target that is not phony, has no rule and is not on disk
\* ends the build with "No rule to make target" at once, so that no command
\* of a dependent runs.
C7_NoRuleToMakeTarget ==
  \A k \in DOMAIN log :
    (/\ log[k].t = "ExecNode"
     /\ ~HasExplicitRule(log[k].n) /\ Applicable(log[k].n) = {}
     /\ ~PhonyListed(log[k].n)
     /\ log[k].outputTs = kNotExist) =>
      /\ k = Len(log)
      /\ phase = "failed"
      /\ error = "No rule to make target"

\* C8: a prerequisite of .PHONY is never skipped: execNode calls execNode on
\* all its regular dependencies and then runs all its commands (up to a
\* failing command that ends the build), whatever the state of its file.
C8_PhonyAlwaysBuilt ==
  \A k \in DOMAIN log :
    LET e == log[k] IN
    PhonyListed(e.n) =>
      /\ e.t # "skip"
      /\ e.t = "eval" => DepCalls(e.n) = nodes[e.n].actual_inputs
      /\ e.t = "built" => RanAllCommands(e.n)
      /\ (e.t = "ExecNode" /\ phase = "done") => BuiltAfter(e.n, k)

\* A phony target whose file exists and is at least as new as everything its
\* dependencies returned ran a command and was built.
C8_Witness ==
  \E k \in DOMAIN log :
    /\ log[k].t = "eval" /\ PhonyListed(log[k].n)
    /\ log[k].outputTs # kNotExist /\ log[k].outputTs >= log[k].latest
    /\ Len(nodes[log[k].n].actual_inputs) > 0
    /\ Len(RunIndexes(log[k].n)) > 0
    /\ BuiltAfter(log[k].n, k)

\* C9: the commands of a node that is not phony, whose file exists and is at
\* least as new as every time stamp its regular dependencies returned, are
\* not run, whatever the state of its order-only prerequisites.
C9_OrderOnlyNeverRebuilds ==
  \A k \in DOMAIN log :
    LET e == log[k] IN
    (/\ e.t \in {"skip", "eval"}
     /\ ~nodes[e.n].is_phony
     /\ e.outputTs # kNotExist
     /\ \A r \in Range(e.depRets) : e.outputTs >= r) => e.t = "skip"

\* The executor is at an order-only dependency of the node on top of stack.
AtOrderOnly ==
  /\ phase = "exec" /\ stack # <<>> /\ Top.pc = "order_onlys"
  /\ Top.i <= Len(nodes[Top.n].actual_order_only_inputs)

\* What a step taken at an order-only dependency d of n does.
OrderOnlyStep ==
  LET n == Top.n
      d == nodes[n].actual_order_only_inputs[Top.i]
  IN IF d \in DOMAIN fs /\ fs[d] # kNotExist
     THEN /\ log' = log /\ done_' = done_ /\ fs' = fs
          /\ num_commands_' = num_commands_
          /\ Len(stack') = Len(stack)
     ELSE /\ Len(log') > Len(log)
          /\ log'[Len(log) + 1].t = "call"
          /\ log'[Len(log) + 1].n = d
          /\ log'[Len(log) + 1].neededBy = n
          /\ \A k \in DOMAIN log :
               /\ ~(log[k].t = "run" /\ log[k].n = n)
               /\ ~(log[k].t = "call" /\ log[k].neededBy = n /\ log[k].edge = "dep")

\* C10: at an order-only dependency whose file exists execNode makes no call
\* (nothing is executed, nothing is recorded); at one whose file does not
\* exist it calls execNode on it, before any call for a regular dependency
\* of the node and before any command of the node.
C10_OrderOnlyRecursion == [][AtOrderOnly => OrderOnlyStep]_vars

\* An order-only dependency whose file did not exist was executed, and a
\* command of the node ran after it; another one, whose file existed, was
\* stepped over.
C10_Witness ==
  /\ \E j \in DOMAIN log : \E k \in DOMAIN log :
       /\ j < k
       /\ log[j].t = "call" /\ log[j].edge = "order_only"
       /\ log[j + 1].t = "ExecNode"
       /\ log[k].t = "run" /\ log[k].n = log[j].neededBy
  /\ \E n \in DOMAIN nodes :
       /\ \E k \in DOMAIN log : log[k].t \in {"skip", "eval"} /\ log[k].n = n
       /\ \E o \in Range(nodes[n].actual_order_only_inputs) :
            ~\E k \in DOMAIN log : /\ log[k].t = "call" /\ log[k].n = o
                                    /\ log[k].neededBy = n
                                    /\ log[k].edge = "order_only"

(***************************************************************************)
(* The dependency builder on its own: the rule lists a makefile of up to   *)
(* MaxRules rules records, and makeDep applied to them.                    *)
(***************************************************************************)
MaxRules == 3

sCO == <<".", "c", ".", "o">>

Digit(i) == <<"0", "1", "2", "3", "4", "5", "6", "7", "8", "9">>[i + 1]

\* The k-th recipe line of the i-th rule of the makefile.
Cmd(i, k) == <<"c", Digit(i), Digit(k)>>

Shape(outputs, inputs, patterns, dc, ncmds) ==
  [outputs |-> outputs, inputs |-> inputs, patterns |-> patterns,
   dc |-> dc, ncmds |-> ncmds]

\* The rules a makefile is made of, each followed by ncmds recipe lines.
RuleShapes ==
  { Shape(<<sA>>, <<sB>>, <<>>, FALSE, 0),         \* a: b
    Shape(<<sA>>, <<>>, <<>>, FALSE, 1),           \* a: ; c
    Shape(<<sB, sA>>, <<sD>>, <<>>, FALSE, 2),     \* b a: d ; c ; c
    Shape(<<sA>>, <<sD>>, <<>>, TRUE, 0),          \* a:: d
    Shape(<<sA>>, <<sB>>, <<>>, TRUE, 2),          \* a:: b ; c ; c
    Shape(<<sPHONY>>, <<sA>>, <<>>, FALSE, 0),     \* .PHONY: a
    Shape(<<>>, <<sPctC>>, <<sPctO>>, FALSE, 1),   \* %.o: %.c ; c
    Shape(<<sCO>>, <<>>, <<>>, FALSE, 1),          \* .c.o: ; c
    Shape(<<sB>>, <<sA>>, <<>>, FALSE, 1),         \* b: a ; c
    Shape(<<sA>>, <<sD>>, <<>>, FALSE, 0) }        \* a: d

RuleLists == UNION { [1 .. n -> RuleShapes] : n \in 1 .. MaxRules }

\* The Rule records the evaluation of the makefile leaves in ev.getRules().
Declared(shapes) ==
  [i \in DOMAIN shapes |->
     Rule(i, shapes[i].outputs, shapes[i].inputs, <<>>, shapes[i].patterns,
          [k \in 1 .. shapes[i].ncmds |-> Cmd(i, k)], shapes[i].dc)]

DepTargets == { <<>>, <<sA>>, <<sCO>>, <<sA, sA>> }

InitDep ==
  /\ \E shapes \in RuleLists : rules = Declared(shapes)
  /\ targets \in DepTargets
  /\ fs = <<>>
  /\ phase = "init"
  /\ error = ""
  /\ nodes = <<>>
  /\ roots = <<>>
  /\ rootIdx = 1
  /\ done_ = <<>>
  /\ stack = <<>>
  /\ num_commands_ = 0
  /\ log = <<>>
  /\ isSilentMode = FALSE
  /\ NothingEvaluated

NextDep == Build

SpecDep == InitDep /\ [][NextDep]_vars

\* The indexes of the rules that declare output o, in declaration order.
RulesOf(o) == {i \in DOMAIN rules : o \in Range(rules[i].outputs)}

DeclaredOutputs == UNION {Range(rules[i].outputs) : i \in DOMAIN rules}

\* Some rule of o has another colon kind than the first rule of o.
MixesColons(o) ==
  \E i, j \in RulesOf(o) :
    /\ \A h \in RulesOf(o) : i <= h
    /\ rules[i].is_double_colon # rules[j].is_double_colon

\* C11: when some target has a rule whose colon kind (: or ::) differs from
\* that of the first rule recorded for it, building the dependency graph
\* fails, in whatever order the rules come and with or without commands.
C11_MixedColonsFatal ==
  (phase # "init" /\ \E o \in DeclaredOutputs : MixesColons(o))
    => phase = "failed"

\* The build failed on a:: followed by a:, neither rule having commands.
C11_Witness ==
  /\ phase = "failed"
  /\ MixesColons(sA)
  /\ rules[1].is_double_colon
  /\ \A i \in DOMAIN rules : rules[i].cmds = <<>>

\* The rules of o that have commands.
WithCmds(o) == {i \in RulesOf(o) : rules[i].cmds # <<>>}

LastOf(S) == CHOOSE i \in S : \A j \in S : j <= i

\* The graph holds a node for the single-colon target o, which several rules
\* with commands declare.
SeveralRecipes(o) ==
  /\ phase = "exec"
  /\ o \in DOMAIN nodes
  /\ \A i \in RulesOf(o) : ~rules[i].is_double_colon
  /\ Cardinality(WithCmds(o)) >= 2

\* The primary rule of o and the commands of its node are those of the last
\* rule of o that has commands.
LastRecipeWins(o) ==
  /\ DepBuilder(rules).rules_[o].primary_rule = LastOf(WithCmds(o))
  /\ nodes[o].cmds = rules[LastOf(WithCmds(o))].cmds

\* C12 as stated: for every single-colon target declared by several rules
\* that have commands, the primary rule is the last declared rule with
\* commands and the node's cmds are exactly that rule's commands.
C12_LastRuleWithCommandsIsPrimary ==
  \A o \in DeclaredOutputs : SeveralRecipes(o) => LastRecipeWins(o)

\* C12 amended: the same for every such target whose name is not that of a
\* suffix rule (.X.Y); addRule leaves the primary rule of a suffix rule as it
\* is.
C12_LastRuleWithCommandsIsPrimaryUnlessSuffix ==
  \A o \in DeclaredOutputs :
    (SeveralRecipes(o) /\ ~isSuffixRule(o)) => LastRecipeWins(o)

\* a was declared by three rules with commands and its node was built.
C12_Witness ==
  /\ SeveralRecipes(sA)
  /\ Cardinality(WithCmds(sA)) = 3
  /\ nodes[sA].cmds = <<Cmd(3, 1), Cmd(3, 2)>>

\* The commands of the rules of o from the i-th rule of the makefile on, rule
\* after rule.
RECURSIVE CmdsFrom(_, _)
CmdsFrom(i, o) ==
  IF i > Len(rules) THEN <<>>
  ELSE (IF i \in RulesOf(o) THEN rules[i].cmds ELSE <<>>) \o CmdsFrom(i + 1, o)

\* The graph holds a node for the double-colon target o.
DoubleColonNode(o) ==
  /\ phase = "exec"
  /\ o \in DOMAIN nodes
  /\ \A i \in RulesOf(o) : rules[i].is_double_colon

\* C13: the cmds of the node of a double-colon target are the commands of
\* all its rules: each rule's commands together, the rules in declaration
\* order.
C13_DoubleColonKeepsAllCommands ==
  \A o \in DeclaredOutputs : DoubleColonNode(o) => nodes[o].cmds = CmdsFrom(1, o)

\* a:: with two recipe lines, a:: without commands, a:: with two recipe
\* lines, and the node of a holds the four lines.
C13_Witness ==
  /\ DoubleColonNode(sA)
  /\ Cardinality(RulesOf(sA)) = 3
  /\ nodes[sA].cmds = <<Cmd(1, 1), Cmd(1, 2), Cmd(3, 1), Cmd(3, 2)>>

\* The places <<rule, output>> of the makefile that name a target that is not
\* special (a name starting with a dot not followed by a dot).
OrdinaryPlaces ==
  UNION { { <<i, j>> : j \in {k \in DOMAIN rules[i].outputs :
                                LET o == rules[i].outputs[k]
                                IN ~(Len(o) >= 2 /\ o[1] = "." /\ o[2] # ".")} } :
          i \in DOMAIN rules }

Earlier(p, q) == p[1] < q[1] \/ (p[1] = q[1] /\ p[2] <= q[2])

FirstOrdinaryPlace == CHOOSE p \in OrdinaryPlaces : \A q \in OrdinaryPlaces : Earlier(p, q)

\* C14: built with an empty target list, the graph has one root: the first
\* output, in declaration order, of an explicit rule that is not a special
\* target.
C14_DefaultTargetIsFirstOrdinaryOutput ==
  (phase = "exec" /\ targets = <<>>)
    => /\ OrdinaryPlaces # {}
       /\ roots = <<rules[FirstOrdinaryPlace[1]].outputs[FirstOrdinaryPlace[2]]>>

\* .PHONY: a, then %.o: %.c, then b a: d, built without targets: the root is b.
C14_Witness ==
  /\ phase = "exec" /\ targets = <<>>
  /\ Len(rules) = 3
  /\ rules[1].outputs = <<sPHONY>>
  /\ rules[2].output_patterns = <<sPctO>>
  /\ rules[3].outputs = <<sB, sA>>
  /\ roots = <<sB>>

\* a, one space, b
Spaced(a, b) == Joined(Joined(a, Returned(<<" ">>)), b)

\* C15: after V += e, and until V is assigned again: if V was recursive, V
\* is recursive and expands to what its old value expands to now, one space,
\* and what e expands to now; if V was simple, V expands to its old value,
\* one space, and what e expanded to at the +=; if V was undefined, V is a
\* simple variable holding what e expanded to at the +=.
C15_PlusEq ==
  \A name \in DOMAIN appended :
    LET h == appended[name] IN
    IF h.was.flavor = "recursive"
    THEN /\ lookup(env, name).flavor = "recursive"
         /\ Expansion(name) = Spaced(Eval(env, h.was.v), Eval(env, h.rhs))
    ELSE IF h.was.flavor = "simple"
    THEN Expansion(name) = Spaced(Returned(h.was.v), h.at)
    ELSE lookup(env, name).flavor = "simple" /\ Expansion(name) = h.at

\* B = foo, B += $(A) bar, then A := baz: $(B) was 'foo  bar' and is
\* 'foo baz bar'.
C15_Witness ==
  /\ nstmts = 3
  /\ last = AssignStmt(Literal(vA), Literal(sBaz), sBaz, "COLON_EQ")
  /\ vB \in DOMAIN appended
  /\ appended[vB].was = RecursiveVar(Literal(sFoo), sFoo)
  /\ appended[vB].rhs = ValueList(<<SymRef(vA), Literal(sBar)>>)
  /\ Eval(prev, SymRef(vB)) = Returned(sFoo \o <<" ">> \o sBar)
  /\ Expansion(vB) = Returned(sFoo \o <<" ">> \o sBaz \o sBar)

\* The statement evaluated last is the top-level V ?= e, and it did not throw.
AfterQuestionEq ==
  phase = "eval" /\ last.k = "AssignStmt" /\ last.op = "QUESTION_EQ"

\* V holds e: as a simple variable or as a recursive one.
HoldsRhs(name) ==
  \/ lookup(env, name) = SimpleVar(Eval(prev, last.rhs).s)
  \/ lookup(env, name) = RecursiveVar(last.rhs, last.orig_rhs)

\* C16 as stated: V ?= e assigns V if V was undefined or expanded to
\* nothing, and leaves V as it was if V was defined with a value that is not
\* empty.
C16_QuestionEqUndefinedOrEmpty ==
  AfterQuestionEq =>
    IF \/ ~isDefined(lookup(prev, last.lhs.s))
       \/ Eval(prev, SymRef(last.lhs.s)) = Returned(<<>>)
    THEN HoldsRhs(last.lhs.s)
    ELSE lookup(env, last.lhs.s) = lookup(prev, last.lhs.s)

\* C16 amended: V ?= e assigns V if V was undefined, and leaves V as it was
\* if V was defined, with an empty value or not.
C16_QuestionEqUndefined ==
  AfterQuestionEq =>
    IF ~isDefined(lookup(prev, last.lhs.s))
    THEN HoldsRhs(last.lhs.s)
    ELSE env = prev

\* A := $(B) with B undefined, then A ?= foo: A is still defined and empty.
C16_Witness ==
  /\ AfterQuestionEq
  /\ last = AssignStmt(Literal(vA), Literal(sFoo), sFoo, "QUESTION_EQ")
  /\ lookup(prev, vA) = SimpleVar(<<>>)
  /\ lookup(env, vA) = SimpleVar(<<>>)

\* C17: once a final assignment ($=) was made to a name, the name expands
\* to what that assignment set, whatever assignments that are not final
\* follow.
C17_FinalAssignmentStays ==
  \A name \in DOMAIN finals : Expansion(name) = finals[name]

\* A Var another assignment would bind.
SomeVars == {SimpleVar(sBaz), RecursiveVar(Literal(sBaz), sBaz)}

\* C18: Vars.assign on a name whose binding is readonly leaves the mapping
\* as it is (the flag it returns is that of the binding), and an assignment
\* statement (=, :=, += or ?=) to such a name leaves what the name expands to
\* as it was.
C18_ReadonlyRejectsAssignment ==
  /\ \A name \in DOMAIN env : \A v \in SomeVars :
       env[name].readonly => assign(env, name, v) = env
  /\ (last.k = "AssignStmt" /\ lookup(prev, last.lhs.s).readonly)
       => Expansion(last.lhs.s) = Eval(prev, SymRef(last.lhs.s))

\* The variables $@, $<, $^ and $+ stand for while the commands of node run.
AutoVars(node) ==
  (<<"@">> :> SimpleVar(AutoAtVar(node)))
  @@ (<<"<">> :> SimpleVar(AutoLessVar(node)))
  @@ (<<"^">> :> SimpleVar(AutoHatVar(node)))
  @@ (<<"+">> :> SimpleVar(AutoPlusVar(node)))

\* The recipe line of each target of the makefile AutoVarRules.
Recipes == (sAll :> RecipeAll) @@ (sA :> RecipeAt) @@ (sB :> RecipeAt)

\* C19: every command that ran for a node is its recipe line with $@
\* expanded to the node's output, $< to its first actual input, $^ to its
\* actual inputs without later duplicates and $+ to all its actual inputs;
\* the commands of a and b, declared by one rule, name a and b.
C19_AutomaticVariables ==
  rules = AutoVarRules =>
    \A k \in DOMAIN log :
      log[k].t = "run" =>
        log[k].cmd = Eval(AutoVars(nodes[log[k].n]), Recipes[log[k].n]).s

(***************************************************************************)
(* The evaluator on rules and recipe lines: one statement per line.        *)
(***************************************************************************)
\* The state after the rule or recipe statement stmt of the next line.
StatementDone(stmt, result) ==
  /\ rules' = result.rules
  /\ last' = stmt
  /\ prev' = env
  /\ executed' = <<stmt>>
  /\ nstmts' = nstmts + 1
  /\ IF result.ok THEN UNCHANGED <<phase, error>>
     ELSE phase' = "failed" /\ error' = "eval"
  /\ UNCHANGED <<env, assigned, appended, finals, targets, fs, nodes, roots,
                 rootIdx, done_, stack, num_commands_, log, parseVars,
                 funcVars, flagVars>>

EvalRuleStmt ==
  /\ phase = "eval" /\ nstmts < MaxStmts
  /\ \E stmt \in RuleStmts : StatementDone(stmt, RuleStmtEval(env, rules, stmt))

EvalCommandStmt ==
  /\ phase = "eval" /\ nstmts < MaxStmts
  /\ \E stmt \in CommandStmts :
       StatementDone(stmt, CommandStmtEval(env, rules, stmt, nstmts + 1))

NextRecipe ==
  \/ EvalRuleStmt
  \/ EvalCommandStmt

SpecRecipe == InitEval /\ [][NextRecipe]_vars

\* rls is rules with the text of a recipe of line lineno appended to the cmds
\* of the last rule, whose cmd_lineno is lineno if it had none and is
\* unchanged if it had one; the other rules are the same.
AppendedToLastRule(rls, text, lineno) ==
  /\ Len(rls) = Len(rules)
  /\ \A i \in 1 .. Len(rules) - 1 : rls[i] = rules[i]
  /\ rls[Len(rules)].cmds = Append(rules[Len(rules)].cmds, text)
  /\ rls[Len(rules)].cmd_lineno =
       IF rules[Len(rules)].cmd_lineno = NoLine THEN lineno
       ELSE rules[Len(rules)].cmd_lineno
  /\ rls[Len(rules)].outputs = rules[Len(rules)].outputs
  /\ rls[Len(rules)].inputs = rules[Len(rules)].inputs

\* The step evaluates a recipe line.
RecipeLineStep == nstmts' = nstmts + 1 /\ last'.k = "CommandStmt"

\* C20: a recipe line is appended to the cmds of the rule declared last,
\* after the lines appended before it, and sets the cmd_lineno of that rule
\* only if it has none; with no rule declared, evaluating it fails.
C20_RecipeLineGoesToLastRule ==
  [][RecipeLineStep =>
       IF rules = <<>> THEN phase' = "failed" /\ rules' = rules
       ELSE /\ phase' = "eval"
            /\ AppendedToLastRule(rules', Eval(env, last'.expr).s, nstmts')]_vars

\* a: b, then the recipe lines q and r: the cmds of the rule are q, r and its
\* cmd_lineno is the line of q.
C20_Witness ==
  /\ nstmts = 3 /\ phase = "eval"
  /\ Len(rules) = 1
  /\ rules[1].outputs = <<sA>>
  /\ rules[1].cmds = << <<"q">>, <<"r">> >>
  /\ rules[1].cmd_lineno = 2

(***************************************************************************)
(* parser.ts: expressions.                                                 *)
(*                                                                         *)
(* Positions are the 0-based positions of the source; At(s, i) is s[i],    *)
(* "" standing for undefined.  The result of a parse is                    *)
(* [thrown, expr, index]: thrown = TRUE is a raised Error.                 *)
(***************************************************************************)

\* StrUtil.findOutsideParenImpl(s, c => c \in chars), from position i on
\* (-1 when there is none)
RECURSIVE findOutsideParenImpl(_, _, _, _, _)
findOutsideParenImpl(s, chars, i, prevBackslash, parenStack) ==
  IF i >= Len(s) THEN -1
  ELSE LET c == At(s, i) IN
       IF c \in chars /\ parenStack = <<>> /\ ~prevBackslash THEN i
       ELSE findOutsideParenImpl(s, chars, i + 1, c = "\\" /\ ~prevBackslash,
              IF c = "(" THEN Append(parenStack, ")")
              ELSE IF c = "{" THEN Append(parenStack, "}")
              ELSE IF /\ c \in {")", "}"} /\ parenStack # <<>>
                      /\ c = parenStack[Len(parenStack)]
                   THEN SubSeq(parenStack, 1, Len(parenStack) - 1)
              ELSE parenStack)

findOutsideParen(s, chars) == findOutsideParenImpl(s, chars, 0, FALSE, <<>>)

\* StrUtil.removeComment
removeComment(line) ==
  IF findOutsideParen(line, {"#"}) = -1 THEN line
  ELSE JsSubstring(line, 0, findOutsideParen(line, {"#"}))

VarRef(name) == [k |-> "VarRef", name |-> name]
VarSubst(name, pat, subst) ==
  [k |-> "VarSubst", name |-> name, pat |-> pat, subst |-> subst]
Func(name, args) == [k |-> "Func", name |-> name, args |-> args]

Parsed(expr, index) == [thrown |-> FALSE, expr |-> expr, index |-> index]
ParseThrown == [thrown |-> TRUE, expr |-> NullExpr, index |-> 0]

\* "terms: string[] | null"
NoTerms == <<"null">>
Includes(terms, c) == terms # NoTerms /\ c \in Range(terms)

\* Parser.newExpr
newExpr(values) ==
  IF values = <<>> THEN Literal(<<>>)
  ELSE IF Len(values) = 1 THEN values[1]
  ELSE ValueList(values)

\* Parser.closeParen
closeParen(c) == IF c = "(" THEN ")" ELSE IF c = "{" THEN "}" ELSE ""

\* Parser.shouldHandleComments
shouldHandleComments(opt) == opt \notin {"DEFINE", "COMMAND"}


\* parseExprImpl: the end of the comment that starts at i
RECURSIVE commentEnd(_, _, _)
commentEnd(s, i, wasBackslash) ==
  IF i < Len(s) /\ ~(At(s, i) = "\n" /\ ~wasBackslash)
  THEN commentEnd(s, i + 1, ~wasBackslash /\ At(s, i) = "\\")
  ELSE i

\* parseExprImpl: the first position from i on that is neither a blank nor
\* a further escaped newline
RECURSIVE continuationEnd(_, _)
continuationEnd(s, i) ==
  IF i >= Len(s) THEN i
  ELSE IF /\ At(s, i) = "\\" /\ i + 1 < Len(s)
          /\ At(s, i + 1) \in {"\r", "\n"}
       THEN continuationEnd(s, i + 2)
  ELSE IF At(s, i) \notin {" ", "\t"} THEN i
  ELSE continuationEnd(s, i + 1)

\* parseExprImpl: "Add any remaining literal text"
parseExprRest(s, trimRight, i, b, list) ==
  LET rest == IF trimRight THEN trimRightSpace(JsSubstring(s, b, i))
              ELSE JsSubstring(s, b, i)
  IN Parsed(newExpr(IF i > b /\ rest # <<>>
                    THEN Append(list, Literal(rest)) ELSE list), i)

\* list, with the literal text s[b .. i) appended when there is some
WithLiteral(s, i, b, list) ==
  IF i > b THEN Append(list, Literal(JsSubstring(s, b, i))) ELSE list

RECURSIVE parseExprLoop(_, _, _, _, _, _, _, _, _)
RECURSIVE parseDollar(_)
RECURSIVE parseDollarLoop(_, _, _, _)
RECURSIVE parseFuncLoop(_, _, _, _, _, _)

\* Parser.parseExprImpl: the iteration of "for (i = 0; i < s.length; i++)"
\* at i, and the rest of the function
parseExprLoop(s, opt, trimRight, terms, i, b, save, depth, list) ==
  LET c == At(s, i)
      n == At(s, i + 1)
      next(j, b2) ==
        parseExprLoop(s, opt, trimRight, terms, j, b2, save, depth, list)
  IN
  IF i >= Len(s) THEN parseExprRest(s, trimRight, i, b, list)
  ELSE IF Includes(terms, c) /\ save = ""
       THEN parseExprRest(s, trimRight, i, b, list)
  ELSE IF terms = NoTerms /\ c = "#" /\ shouldHandleComments(opt)
       THEN Parsed(newExpr(WithLiteral(s, i, b, list)),
                   commentEnd(s, i, FALSE))
  ELSE IF c = "$"
       THEN IF i + 1 >= Len(s) THEN parseExprRest(s, trimRight, i, b, list)
            ELSE IF n = "$"
                 THEN parseExprLoop(s, opt, trimRight, terms, i + 2, i + 2,
                        save, depth,
                        Append(WithLiteral(s, i, b, list), Literal(<<"$">>)))
            ELSE IF Includes(terms, n)
                 THEN Parsed(newExpr(Append(WithLiteral(s, i, b, list),
                                            Literal(<<"$">>))), i + 1)
            ELSE LET dollarResult == parseDollar(SubstringAt(s, i)) IN
                 IF dollarResult.thrown THEN ParseThrown
                 ELSE parseExprLoop(s, opt, trimRight, terms,
                        i + dollarResult.index, i + dollarResult.index,
                        save, depth,
                        Append(WithLiteral(s, i, b, list), dollarResult.expr))
  ELSE IF c \in {"(", "{"} /\ opt = "FUNC"
       THEN IF /\ terms # NoTerms /\ Len(terms) > 0
               /\ terms[1] = closeParen(c)
            THEN parseExprLoop(s, opt, trimRight, Tail(terms), i + 1, b,
                               closeParen(c), depth + 1, list)
            ELSE IF closeParen(c) = save
                 THEN parseExprLoop(s, opt, trimRight, terms, i + 1, b, save,
                                    depth + 1, list)
            ELSE next(i + 1, b)
  ELSE IF c = save
       THEN IF depth - 1 = 0
            THEN parseExprLoop(s, opt, trimRight,
                   <<save>> \o (IF terms = NoTerms THEN <<>> ELSE terms),
                   i + 1, b, "", 0, list)
            ELSE parseExprLoop(s, opt, trimRight, terms, i + 1, b, save,
                               depth - 1, list)
  ELSE IF c = "\\" /\ i + 1 < Len(s) /\ opt # "COMMAND"
       THEN IF n = "\\" THEN next(i + 2, b)
            ELSE IF n = "#" /\ shouldHandleComments(opt)
                 THEN parseExprLoop(s, opt, trimRight, terms, i + 2, i + 1,
                        save, depth,
                        Append(list, Literal(JsSubstring(s, b, i))))
            ELSE IF n \in {"\r", "\n"}
                 THEN IF Includes(terms, " ")
                      THEN parseExprRest(s, trimRight, i, b, list)
                      ELSE LET j == IF /\ n = "\r" /\ i + 4 < Len(s)
                                       /\ At(s, i + 4) = "\n"
                                    THEN i + 3 ELSE i + 2
                               e == continuationEnd(s, j)
                           IN parseExprLoop(s, opt, trimRight, terms, e, e,
                                save, depth,
                                Append(
                                  IF i > b
                                  THEN Append(list, Literal(trimRightSpace(
                                         JsSubstring(s, b, i - b))))
                                  ELSE list,
                                  Literal(<<" ">>)))
            ELSE next(i + 1, b)
  ELSE next(i + 1, b)

\* Parser.parseExprImpl
parseExprImpl(s, terms, opt, trimRight) ==
  parseExprLoop(IF Len(s) > 0 /\ s[Len(s)] = "\r"
                THEN SubSeq(s, 1, Len(s) - 1) ELSE s,
                opt, trimRight, terms, 0, 0, "", 0, <<>>)

\* Parser.parseFunc: "while (i < s.length)" at i, nargs arguments counted;
\* the result is the call and the position after it
parseFuncLoop(s, name, cp, i, nargs, args) ==
  IF i >= Len(s) THEN Parsed(Func(name, args), i)
  ELSE IF At(s, i) \in {" ", "\t"}
       THEN parseFuncLoop(s, name, cp, i + 1, nargs, args)
  ELSE LET funcTerms == IF /\ isRegistered(name)
                           /\ FuncInfos[name].arity > 0
                           /\ nargs >= FuncInfos[name].arity
                        THEN <<cp>> ELSE <<cp, ",">>
           argResult == parseExprImpl(SubstringAt(s, i), funcTerms, "FUNC",
                                      FALSE)
           j == i + argResult.index
       IN IF argResult.thrown \/ j = Len(s) THEN ParseThrown
          ELSE IF At(s, j) = cp \/ j + 1 = Len(s)
               THEN Parsed(Func(name, Append(args, argResult.expr)), j + 1)
          ELSE parseFuncLoop(s, name, cp, j + 1, nargs + 1,
                             Append(args, argResult.expr))

\* Parser.parseDollar: "while (true)" with i and terms
parseDollarLoop(s, cp, i0, terms) ==
  LET vnameResult == parseExprImpl(SubstringAt(s, i0), terms, "NORMAL", FALSE)
      vname == vnameResult.expr
      i == i0 + vnameResult.index
      \* "terms.splice(2, 1)"
      spliced == SubSeq(terms, 1, 2)
  IN
  IF vnameResult.thrown THEN ParseThrown
  ELSE IF At(s, i) = cp
       THEN IF vname.k = "Literal" THEN Parsed(SymRef(vname.s), i + 1)
            ELSE Parsed(VarRef(vname), i + 1)
  ELSE IF At(s, i) \in {" ", "\\"}
       THEN IF vname.k = "Literal"
            THEN parseFuncLoop(s, vname.s, cp, i + 1, 1, <<>>)
            ELSE parseDollarLoop(s, cp, 2, spliced)
  ELSE IF At(s, i) = ":"
       THEN LET patResult == parseExprImpl(SubstringAt(s, i + 1),
                               <<cp, "=">>, "NORMAL", FALSE)
                k == i + 1 + patResult.index
                substResult == parseExprImpl(SubstringAt(s, k + 1),
                                 <<cp, cp>>, "NORMAL", FALSE)
            IN IF patResult.thrown THEN ParseThrown
               ELSE IF At(s, k) = cp
                    THEN Parsed(VarRef(newExpr(<<vname, Literal(<<":">>),
                                                 patResult.expr>>)), k + 1)
               ELSE IF substResult.thrown THEN ParseThrown
               ELSE Parsed(VarSubst(vname, patResult.expr, substResult.expr),
                           k + 1 + substResult.index + 1)
  ELSE IF \E found \in i .. Len(s) - 1 : At(s, found) = cp
       THEN Parsed(SymRef(JsSubstring(s, 2,
                     CHOOSE found \in i .. Len(s) - 1 :
                       /\ At(s, found) = cp
                       /\ \A f \in i .. found - 1 : At(s, f) # cp)),
                   Len(s))
  ELSE ParseThrown

\* Parser.parseDollar
parseDollar(s) ==
  IF Len(s) < 2 \/ At(s, 0) # "$" \/ At(s, 1) = "$" THEN ParseThrown
  ELSE IF closeParen(At(s, 1)) = ""
       THEN Parsed(SymRef(JsSubstring(s, 1, 2)), 2)
  ELSE parseDollarLoop(s, closeParen(At(s, 1)), 2,
                       <<closeParen(At(s, 1)), ":", " ">>)

\* Parser.parseExpr
parseExpr(s, opt) == parseExprImpl(s, NoTerms, opt, FALSE)

(***************************************************************************)
(* parser.ts: the Parser.                                                  *)
(*                                                                         *)
(* A Parser is a record of the fields of the class.  stmts is the tree of  *)
(* the statements; outStmts, which aliases stmts or the true_stmts or      *)
(* false_stmts of an IfStmt in it, is the path to that list: pairs of the  *)
(* index of an IfStmt and the name of its branch.  phase is "parsing"      *)
(* inside "for (this.l = 0; ...)", "end" after it, "done" when parse has   *)
(* returned and "thrown" when it was left by a raised Error.  The lines    *)
(* of the model use the directives include, define, ifdef, ifndef, else    *)
(* and endif: currentDirective stays NONE.                                 *)
(***************************************************************************)
\* A statement with its loc.lineno
Located(stmt, lineno) ==
  [f \in DOMAIN stmt \cup {"lineno"} |->
     IF f = "lineno" THEN lineno ELSE stmt[f]]

\* "new RuleStmt(this.loc(), lhs, ruleSep, rhs)"
ParsedRuleStmt(lhs, sep, rhs) ==
  [k |-> "RuleStmt", lhs |-> lhs, sep |-> sep, rhs |-> rhs]
ParseErrorStmt(msg) == [k |-> "ParseErrorStmt", msg |-> msg]
IncludeStmt(expr, should_exist) ==
  [k |-> "IncludeStmt", expr |-> expr, should_exist |-> should_exist]

\* "new Parser(buf, filename, stmts)"
NewParser(buf) ==
  [buf |-> buf, l |-> 0, lineno |-> 0, stmts |-> <<>>, outStmts |-> <<>>,
   afterRule |-> FALSE, ifStack |-> <<>>, defineName |-> <<>>,
   numDefineNest |-> 0, defineStart |-> 0, defineStartLine |-> 0,
   numIfNest |-> 0, origLineWithDirectives |-> <<>>, phase |-> "parsing"]

\* "this.outStmts.push(stmt)"
RECURSIVE PushAt(_, _, _)
PushAt(stmts, path, stmt) ==
  IF path = <<>> THEN Append(stmts, stmt)
  ELSE [stmts EXCEPT ![path[1][1]] =
          [@ EXCEPT ![path[1][2]] = PushAt(@, Tail(path), stmt)]]

\* The list outStmts aliases
RECURSIVE ListAt(_, _)
ListAt(stmts, path) ==
  IF path = <<>> THEN stmts
  ELSE ListAt(stmts[path[1][1]][path[1][2]], Tail(path))

Push(p, stmt) ==
  [p EXCEPT !.stmts = PushAt(p.stmts, p.outStmts, Located(stmt, p.lineno))]

\* Parser.error
ParserError(p, msg) == Push(p, ParseErrorStmt(msg))

\* A raised Error leaves parse
Raised(p) == [p EXCEPT !.phase = "thrown"]

\* Parser.findEndOfLine, e being at position e with lfCount newlines counted
RECURSIVE findEndOfLineFrom(_, _, _)
findEndOfLineFrom(buf, e, lfCount) ==
  IF e >= Len(buf) THEN [pos |-> e, lfCount |-> lfCount]
  ELSE IF At(buf, e) = "\\"
       THEN IF e + 1 < Len(buf)
            THEN IF At(buf, e + 1) = "\n"
                 THEN findEndOfLineFrom(buf, e + 2, lfCount + 1)
                 ELSE IF /\ At(buf, e + 1) = "\r" /\ e + 2 < Len(buf)
                         /\ At(buf, e + 2) = "\n"
                      THEN findEndOfLineFrom(buf, e + 3, lfCount + 1)
                 ELSE IF At(buf, e + 1) = "\\"
                      THEN findEndOfLineFrom(buf, e + 2, lfCount)
                 ELSE findEndOfLineFrom(buf, e + 1, lfCount)
            ELSE findEndOfLineFrom(buf, e + 1, lfCount)
  ELSE IF At(buf, e) = "\n" THEN [pos |-> e, lfCount |-> lfCount + 1]
  ELSE findEndOfLineFrom(buf, e + 1, lfCount)

findEndOfLine(p) == findEndOfLineFrom(p.buf, p.l, 0)

\* The names of makeDirectives; longestDirectiveLen is the length of
\* "unexport".
sDefine == <<"d", "e", "f", "i", "n", "e">>
sEndef == <<"e", "n", "d", "e", "f">>
sInclude == <<"i", "n", "c", "l", "u", "d", "e">>
sIfdef == <<"i", "f", "d", "e", "f">>
sIfndef == <<"i", "f", "n", "d", "e", "f">>
sElse == <<"e", "l", "s", "e">>
sEndif == <<"e", "n", "d", "i", "f">>
longestDirectiveLen == 8

\* Parser.getDirective: prefix up to its first blank, tab or '#', if any
RECURSIVE directiveEnd(_, _)
directiveEnd(prefix, i) ==
  IF i >= Len(prefix) \/ At(prefix, i) \in {" ", "\t", "#"} THEN i
  ELSE directiveEnd(prefix, i + 1)

\* Parser.getDirective
getDirective(line) ==
  JsSubstring(line, 0,
    directiveEnd(JsSubstring(line, 0, longestDirectiveLen + 1), 0))

\* No expression: "rhs = null"
NoExpr == Parsed(NullExpr, 0)

\* Parser.parseRule: "new RuleStmt(this.loc(), lhs, ruleSep, rhs)", pushed,
\* and "this.afterRule = true"; lhs and rhs are the results of parseExpr
declareRule(p, lhs, ruleSep, rhs) ==
  IF lhs.thrown \/ rhs.thrown THEN Raised(p)
  ELSE [Push(p, ParsedRuleStmt(lhs.expr, ruleSep, rhs.expr))
          EXCEPT !.afterRule = TRUE]

\* Parser.parseRule: the rule whose '=' or ';' after the colon is at foundPos
parseRuleWith(p, line, foundPos, lhs) ==
  IF At(line, foundPos) = ";" THEN declareRule(p, lhs, "SEMICOLON", NoExpr)
  ELSE IF /\ Len(line) > foundPos + 2 /\ At(line, foundPos + 1) = "$"
          /\ At(line, foundPos + 2) = "="
       THEN declareRule(p, lhs, "FINALEQ",
              parseExpr(trimLeftSpace(SubstringAt(line, foundPos + 3)),
                        "NORMAL"))
  ELSE declareRule(p, lhs, "EQ",
         parseExpr(trimLeftSpace(SubstringAt(line, foundPos + 1)), "NORMAL"))

\* Parser.parseRule: found is what findTwoOutsideParen found after the colon
parseRuleFound(p, line, sep, found) ==
  IF found = -1
  THEN declareRule(p, parseExpr(line, "NORMAL"), "NULL", NoExpr)
  ELSE parseRuleWith(p, line, found + sep + 1,
         parseExpr(trimSpace(JsSubstring(line, 0, found + sep + 1)),
                   "NORMAL"))

\* Parser.parseRule from "if (line.length === 0)" on
parseRuleTrimmed(p, line, sep) ==
  IF Len(line) = 0 THEN p
  ELSE IF At(p.origLineWithDirectives, 0) = "\t"
       THEN ParserError(p, "*** commands commence before first target.")
  ELSE IF sep = -1
       THEN declareRule(p, parseExpr(line, "NORMAL"), "NULL", NoExpr)
  ELSE parseRuleFound(p, line, sep,
         findOutsideParen(SubstringAt(line, sep + 1), {"=", ";"}))

\* Parser.parseRule (currentDirective is NONE)
parseRule(p, line, sep) == parseRuleTrimmed(p, trimLeftSpace(line), sep)

\* Parser.parseAssignStatement (sep > 0): the operator
assignOp(line, sep) ==
  IF At(line, sep - 1) = ":" THEN "COLON_EQ"
  ELSE IF At(line, sep - 1) = "+" THEN "PLUS_EQ"
  ELSE IF At(line, sep - 1) = "?" THEN "QUESTION_EQ"
  ELSE "EQ"

\* Parser.parseAssignStatement (sep > 0)
parseAssignStatement(line, sep) ==
  [lhs |-> trimSpace(JsSubstring(line, 0,
             IF assignOp(line, sep) = "EQ" THEN sep ELSE sep - 1)),
   rhs |-> trimLeftSpace(SubstringAt(line,
             IF sep + 1 < Len(line) THEN sep + 1 ELSE Len(line))),
   op |-> assignOp(line, sep)]

\* A parseAssign that leaves afterRule as it is.
declareAssignAfterRule(p, lhs, rhs, orig_rhs, op, isFinal) ==
  IF lhs.thrown \/ rhs.thrown THEN Raised(p)
  ELSE Push(p, IF isFinal
               THEN Final(AssignStmt(lhs.expr, rhs.expr, orig_rhs, op))
               ELSE AssignStmt(lhs.expr, rhs.expr, orig_rhs, op))

\* Parser.parseAssign: "new AssignStmt(...)", pushed, and
\* "this.afterRule = false"; lhs and rhs are the results of parseExpr
declareAssign(p, lhs, rhs, orig_rhs, op, isFinal) ==
  IF lhs.thrown \/ rhs.thrown THEN Raised(p)
  ELSE [Push(p, IF isFinal
                THEN Final(AssignStmt(lhs.expr, rhs.expr, orig_rhs, op))
                ELSE AssignStmt(lhs.expr, rhs.expr, orig_rhs, op))
          EXCEPT !.afterRule = FALSE]

\* Parser.parseAssign: "Check for final assignment ($=)"
isFinalRhs(rhs) == Len(rhs) >= 2 /\ At(rhs, 0) = "$" /\ At(rhs, 1) = "="

\* Parser.parseAssign from the final assignment check on
parseAssignOf(p, st) ==
  IF isFinalRhs(st.rhs)
  THEN declareAssign(p, parseExpr(st.lhs, "NORMAL"),
         parseExpr(trimLeftSpace(SubstringAt(st.rhs, 2)), "NORMAL"),
         trimLeftSpace(SubstringAt(st.rhs, 2)), st.op, TRUE)
  ELSE declareAssign(p, parseExpr(st.lhs, "NORMAL"),
         parseExpr(st.rhs, "NORMAL"), st.rhs, st.op, FALSE)

\* Parser.parseAssign
parseAssign(p, line, separatorPos) ==
  IF separatorPos = 0 THEN ParserError(p, "*** empty variable name ***")
  ELSE parseAssignOf(p, parseAssignStatement(line, separatorPos))

\* Parser.parseRuleOrAssign, sep being what findThreeOutsideParen found
parseRuleOrAssignAt(p, line, sep) ==
  IF sep = -1 \/ At(line, sep) = ";" THEN parseRule(p, line, -1)
  ELSE IF At(line, sep) = "=" THEN parseAssign(p, line, sep)
  ELSE IF sep + 1 < Len(line) /\ At(line, sep + 1) = "="
       THEN parseAssign(p, line, sep + 1)
  ELSE parseRule(p, line, sep)

\* Parser.parseRuleOrAssign
parseRuleOrAssign(p, line) ==
  parseRuleOrAssignAt(p, line, findOutsideParen(line, {":", "=", ";"}))

\* Parser.parseInclude: the IncludeStmt of the parsed expression
declareInclude(p, expr, directive) ==
  IF expr.thrown THEN Raised(p)
  ELSE [Push(p, IncludeStmt(expr.expr, At(directive, 0) = "i"))
          EXCEPT !.afterRule = FALSE]

\* Parser.parseInclude
parseInclude(p, line, directive) ==
  declareInclude(p, parseExpr(line, "NORMAL"), directive)

\* Parser.parseDefine
parseDefine(p, line) ==
  IF line = <<>> THEN ParserError(p, "*** empty variable name.")
  ELSE [p EXCEPT !.defineName = line, !.numDefineNest = 1,
                 !.defineStart = 0, !.defineStartLine = p.lineno,
                 !.afterRule = FALSE]

\* Parser.enterIf, pushed being the Parser after "this.outStmts.push(stmt)"
\* and idx the place of stmt in the list
enteredIf(p, pushed, idx) ==
  [pushed EXCEPT
     !.ifStack = Append(@, [at |-> <<p.outStmts, idx>>, isInElse |-> FALSE,
                            numNest |-> p.numIfNest]),
     !.outStmts = Append(p.outStmts, <<idx, "true_stmts">>)]

\* "this.outStmts.push(stmt); this.enterIf(stmt)"
enterIf(p, stmt) ==
  enteredIf(p, Push(p, stmt), Len(ListAt(p.stmts, p.outStmts)) + 1)

\* Parser.parseIfdef: the IfStmt of the parsed expression
declareIfdef(p, expr, directive) ==
  IF expr.thrown THEN Raised(p)
  ELSE enterIf(p, IfStmt(IF hasPrefix(directive, <<"i", "f", "n">>)
                         THEN "IFNDEF" ELSE "IFDEF",
                         expr.expr, NullExpr, <<>>, <<>>))

\* Parser.parseIfdef
parseIfdef(p, line, directive) ==
  declareIfdef(p, parseExpr(line, "NORMAL"), directive)

\* The list the branch of a conditional is
BranchOf(st) ==
  Append(st.at[1],
         <<st.at[2], IF st.isInElse THEN "false_stmts" ELSE "true_stmts">>)

\* Parser.parseElse: "st.isInElse = true; this.outStmts = st.stmt.false_stmts"
inElse(p) ==
  [p EXCEPT !.ifStack[Len(p.ifStack)].isInElse = TRUE,
            !.outStmts = Append(p.ifStack[Len(p.ifStack)].at[1],
                           <<p.ifStack[Len(p.ifStack)].at[2], "false_stmts">>)]

\* Parser.parseElse: "this.handleDirective(nextIf, this.elseIfDirectives)" and
\* the error when it finds none, directive being getDirective(nextIf)
elseIf(p, nextIf, directive) ==
  IF directive \in {sIfdef, sIfndef}
  THEN parseIfdef(p, trimLeftSpace(SubstringAt(nextIf, Len(directive))),
                  directive)
  ELSE ParserError(p, "extraneous text after 'else' directive")

\* Parser.parseElse from "this.numIfNest = st.numNest + 1" on
parseElseIf(p, nextIf) ==
  [elseIf([p EXCEPT !.numIfNest = p.ifStack[Len(p.ifStack)].numNest + 1],
          nextIf, getDirective(nextIf))
     EXCEPT !.numIfNest = 0]

\* Parser.parseElse
parseElse(p, line) ==
  IF p.ifStack = <<>> THEN ParserError(p, "*** extraneous 'else'.")
  ELSE IF p.ifStack[Len(p.ifStack)].isInElse
       THEN ParserError(p, "*** only one 'else' per conditional.")
  ELSE IF trimLeftSpace(line) = <<>> THEN inElse(p)
  ELSE parseElseIf(inElse(p), trimLeftSpace(line))

\* A parseEndif after which the statements go to the top-level list.
endedIfAtTop(p, popped) == [p EXCEPT !.ifStack = popped, !.outStmts = <<>>]

\* Parser.parseEndif: the Parser with ifStack popped
endedIf(p, popped) ==
  [p EXCEPT !.ifStack = popped,
            !.outStmts = IF popped = <<>> THEN <<>>
                         ELSE BranchOf(popped[Len(popped)])]

\* Parser.parseEndif
parseEndif(p, line) ==
  IF p.ifStack = <<>> THEN ParserError(p, "*** extraneous 'endif'.")
  ELSE IF line # <<>>
       THEN ParserError(p, "extraneous text after 'endif' directive")
  ELSE endedIf(p, SubSeq(p.ifStack, 1,
                    Len(p.ifStack) - (p.ifStack[Len(p.ifStack)].numNest + 1)))

\* The names of this.makeDirectives the model has handlers for
makeDirectives ==
  {sInclude, <<"-">> \o sInclude, <<"s">> \o sInclude, sDefine, sIfdef,
   sIfndef, sElse, sEndif}

\* Parser.handleDirective(line, this.makeDirectives) for the directive found
handleDirectiveOf(p, lineWithoutDirective, directive) ==
  IF directive = sDefine THEN parseDefine(p, lineWithoutDirective)
  ELSE IF directive \in {sIfdef, sIfndef}
       THEN parseIfdef(p, lineWithoutDirective, directive)
  ELSE IF directive = sElse THEN parseElse(p, lineWithoutDirective)
  ELSE IF directive = sEndif THEN parseEndif(p, lineWithoutDirective)
  ELSE parseInclude(p, lineWithoutDirective, directive)

\* Parser.handleDirective(line, this.makeDirectives) and, when it returns
\* false, parseRuleOrAssign(line); directive is getDirective(line)
handleDirective(p, line, directive) ==
  IF directive \in makeDirectives
  THEN handleDirectiveOf(p, trimLeftSpace(SubstringAt(line, Len(directive))),
                         directive)
  ELSE parseRuleOrAssign(p, line)

\* Parser.parseInsideDefine: "Handle endef", the error for text after endef
endefChecked(p, rest) ==
  IF rest # <<>>
  THEN ParserError(p, "extraneous text after 'endef' directive")
  ELSE p

\* Parser.parseInsideDefine: the AssignStmt of the define block, pushed
declareDefine(p, name, rhs, body) ==
  IF name.thrown \/ rhs.thrown THEN Raised(p)
  ELSE [p EXCEPT
          !.stmts = PushAt(p.stmts, p.outStmts,
                      Located(AssignStmt(name.expr, rhs.expr, body, "EQ"),
                              p.defineStartLine)),
          !.defineName = <<>>]

\* Parser.parseInsideDefine: "Handle endef", body being the text captured
handleEndef(p, line, body) ==
  declareDefine(
    endefChecked(p, trimRightSpace(removeComment(trimLeftSpace(
                      SubstringAt(line, 5))))),
    parseExpr(p.defineName, "NORMAL"), parseExpr(body, "DEFINE"), body)

\* Parser.parseInsideDefine, nest being the new numDefineNest
parseInsideDefineAt(p, line, nest) ==
  IF nest > 0
  THEN [p EXCEPT !.numDefineNest = nest,
                 !.defineStart = IF @ = 0 THEN p.l ELSE @]
  ELSE handleEndef([p EXCEPT !.numDefineNest = nest], line,
         IF p.defineStart # 0
         THEN JsSubstring(p.buf, p.defineStart, p.l - 1) ELSE <<>>)

\* A parseInsideDefine that does not count the define lines of the body.
defineNestFlat(p, directive) ==
  IF directive = sEndef THEN p.numDefineNest - 1 ELSE p.numDefineNest

\* Parser.parseInsideDefine: numDefineNest after the line whose directive is
\* directive
defineNest(p, directive) ==
  IF directive = sDefine THEN p.numDefineNest + 1
  ELSE IF directive = sEndef THEN p.numDefineNest - 1
  ELSE p.numDefineNest

\* Parser.parseInsideDefine
parseInsideDefine(p, line) ==
  parseInsideDefineAt(p, line,
                      defineNest(p, getDirective(trimLeftSpace(line))))

\* Parser.parseLine: the CommandStmt of the parsed recipe line
declareCommand(p, command) ==
  IF command.thrown THEN Raised(p) ELSE Push(p, CommandStmt(command.expr))

\* Parser.parseLine from "if (line[0] === '#')" on, line being trimmed
parseOrdinaryLine(p, line) ==
  IF At(line, 0) = "#" THEN p
  ELSE handleDirective(p, line, getDirective(line))

\* Parser.parseLine
parseLine(p, line) ==
  IF p.defineName # <<>> THEN parseInsideDefine(p, line)
  ELSE IF line = <<>> \/ line = <<"\r">> THEN p
  ELSE IF At(line, 0) = "\t" /\ p.afterRule
       THEN declareCommand(p, parseExpr(SubstringAt(line, 1), "COMMAND"))
  ELSE parseOrdinaryLine(p, trimLeftSpace(line))

\* line.endsWith('\r') ? line.slice(0, -1) : line
WithoutCr(line) ==
  IF Len(line) > 0 /\ line[Len(line)] = "\r"
  THEN SubSeq(line, 1, Len(line) - 1) ELSE line

\* Parser.parse: the rest of an iteration once parseLine has returned q;
\* "if (e === this.buf.length) break" and the condition of the loop
nextLine(q, eol) ==
  IF q.phase = "thrown" THEN q
  ELSE [q EXCEPT !.lineno = @ + eol.lfCount - 1,
                 !.l = IF eol.pos = Len(q.buf) THEN @ ELSE eol.pos + 1,
                 !.phase = IF eol.pos + 1 >= Len(q.buf)
                           THEN "end" ELSE "parsing"]

\* Parser.parse: the iteration on the line that ends at eol
parseLineAt(p, eol, line) ==
  nextLine(parseLine([p EXCEPT !.lineno = @ + 1,
                               !.origLineWithDirectives = line], line), eol)

parseLineTo(p, eol) ==
  parseLineAt(p, eol, WithoutCr(JsSubstring(p.buf, p.l, eol.pos)))

\* Parser.parse: one iteration of "for (this.l = 0; this.l < buf.length; )"
parseStep(p) == parseLineTo(p, findEndOfLine(p))

\* Parser.parse: "if (this.defineName !== '')" after the loop
missingEndef(p) ==
  IF p.defineName # <<>>
  THEN ParserError(p, "*** missing `endef', unterminated `define'.")
  ELSE p

\* Parser.parse: "if (this.ifStack.length > 0)" after the loop
missingEndif(p) ==
  IF Len(p.ifStack) > 0 THEN ParserError(p, "*** missing `endif'.") ELSE p

\* Parser.parse: what follows the loop
parseEnd(p) == [missingEndef(missingEndif(p)) EXCEPT !.phase = "done"]

(***************************************************************************)
(* The parser on a makefile: one line per step.                            *)
(***************************************************************************)
\* The most chunks a makefile of the model is made of
MaxLines == 3

\* The text of the model's makefiles, a chunk being a line or a few lines
cRule == <<"a", ":", " ", "b">>
cRecipe == <<"\t", "q">>
cAssign == <<"A", " ", "=", " ", "x">>
\* an empty line / # c
cBlankComment == <<"\n", "#", " ", "c">>
cIfdef == sIfdef \o <<" ", "A">>
cEndif == sEndif
cInclude == sInclude \o <<" ", "f">>
\* define D
cDefineLine == sDefine \o <<" ", "D">>
cEndefLine == sEndef
\* define E / <TAB>x # y / endef
cInnerDefine ==
  sDefine \o <<" ", "E", "\n", "\t", "x", " ", "#", " ", "y", "\n">> \o sEndef
\* = x
cNoName == <<"=", " ", "x">>
\* $(A
cOpenRef == <<"$", "(", "A">>
\* A = x\ / y
cContinued == <<"A", " ", "=", " ", "x", "\\", "\n", "y">>
\* A = $(B)x\ / y
cContinuedRef ==
  <<"A", " ", "=", " ", "$", "(", "B", ")", "x", "\\", "\n", "y">>
\* A = $(B c)
cSpacedRef == <<"A", " ", "=", " ", "$", "(", "B", " ", "c", ")">>
\* A = $(value B)
cValueOf == <<"A", " ", "=", " ", "$", "(">> \o sValue \o <<" ", "B", ")">>

Chunks ==
  {cRule, cRecipe, cAssign, cBlankComment, cIfdef, cEndif, cInclude,
   cDefineLine, cEndefLine, cInnerDefine, cNoName, cOpenRef, cContinued,
   cContinuedRef, cSpacedRef, cValueOf}

\* The chunks, one per line
RECURSIVE JoinLines(_)
JoinLines(chunks) ==
  IF chunks = <<>> THEN <<>>
  ELSE IF Len(chunks) = 1 THEN chunks[1]
  ELSE chunks[1] \o <<"\n">> \o JoinLines(Tail(chunks))

Buffers ==
  { JoinLines(chunks) :
      chunks \in UNION {[1 .. n -> Chunks] : n \in 0 .. MaxLines} }

\* parse is about to start on one of the makefiles bufs
InitParseOf(bufs) ==
  /\ parser \in {NewParser(buf) : buf \in bufs}
  /\ parsed = <<>>
  /\ isSilentMode = FALSE
  /\ scopes = <<>>
  /\ applied = <<>>
  /\ rules = <<>>
  /\ targets = <<>>
  /\ fs = <<>>
  /\ phase = "parse"
  /\ error = ""
  /\ nodes = <<>>
  /\ roots = <<>>
  /\ rootIdx = 1
  /\ done_ = <<>>
  /\ stack = <<>>
  /\ num_commands_ = 0
  /\ log = <<>>
  /\ env = <<>>
  /\ last = NoStmt
  /\ prev = <<>>
  /\ executed = <<>>
  /\ assigned = <<>>
  /\ appended = <<>>
  /\ finals = <<>>
  /\ nstmts = 0

\* The logical line parse is at
LineAt(p) == WithoutCr(JsSubstring(p.buf, p.l, findEndOfLine(p).pos))

\* parse: the next line
ParseLine ==
  /\ phase = "parse" /\ parser.phase = "parsing"
  /\ parser.l < Len(parser.buf)
  /\ parser' = parseStep(parser)
  /\ parsed' = Append(parsed, [line |-> LineAt(parser), from |-> parser,
                               to |-> parser'])
  /\ UNCHANGED <<phase, error, execVars, env, last, prev, executed, assigned,
                 appended, finals, nstmts, funcVars, flagVars>>

\* parse: the checks after the last line
ParseEnd ==
  /\ phase = "parse"
  /\ \/ parser.phase = "end"
     \/ parser.phase = "parsing" /\ parser.l >= Len(parser.buf)
  /\ parser' = parseEnd(parser)
  /\ UNCHANGED <<parsed, phase, error, execVars, env, last, prev, executed,
                 assigned, appended, finals, nstmts, funcVars, flagVars>>

InitParse == InitParseOf(Buffers)

NextParse ==
  \/ ParseLine
  \/ ParseEnd

SpecParse == InitParse /\ [][NextParse]_vars

(***************************************************************************)
(* Claims about the parser.                                                *)
(***************************************************************************)
\* The number of logical lines of buf from position l on, as findEndOfLine
\* delimits them
RECURSIVE NumLines(_, _)
NumLines(buf, l) ==
  IF l >= Len(buf) THEN 0
  ELSE IF findEndOfLineFrom(buf, l, 0).pos = Len(buf) THEN 1
  ELSE 1 + NumLines(buf, findEndOfLineFrom(buf, l, 0).pos + 1)

\* The statements the line of the history entry h appended to the list that
\* was outStmts
Yielded(h) ==
  SubSeq(ListAt(h.to.stmts, h.from.outStmts),
         Len(ListAt(h.from.stmts, h.from.outStmts)) + 1,
         Len(ListAt(h.to.stmts, h.from.outStmts)))

\* The line of h is the invalid line "= x", outside a define block.
InvalidLine(h) == h.line = cNoName /\ h.from.defineName = <<>>

\* C21: parse errors do not stop parsing: parse is never left by a raised
\* Error, it has processed every line when it returns, and an invalid line
\* yields one ParseError statement, at the line's number.
C21_ParseErrorsDoNotStopParsing ==
  /\ parser.phase # "thrown"
  /\ parser.phase = "done" => Len(parsed) = NumLines(parser.buf, 0)
  /\ \A i \in DOMAIN parsed :
       InvalidLine(parsed[i]) =>
         /\ Len(Yielded(parsed[i])) = 1
         /\ Yielded(parsed[i])[1].k = "ParseErrorStmt"
         /\ Yielded(parsed[i])[1].lineno = parsed[i].from.lineno + 1

\* What the line of the history entry h was: the line of a define directive,
\* or a line that yielded a rule, an assignment or an include.
Kind(h) ==
  IF h.from.defineName = <<>> /\ h.to.defineName # <<>> THEN "define"
  ELSE IF /\ Yielded(h) # <<>>
          /\ Yielded(h)[1].k \in {"RuleStmt", "AssignStmt", "IncludeStmt"}
       THEN Yielded(h)[1].k
  ELSE "other"

\* The lines before line i that were a rule, an assignment, an include or a
\* define
Deciding(i) == {j \in 1 .. i - 1 : Kind(parsed[j]) # "other"}

\* The most recent such line before line i was a rule line.
AfterRuleLine(i) ==
  /\ Deciding(i) # {}
  /\ Kind(parsed[LastOf(Deciding(i))]) = "RuleStmt"

TabLines == {i \in DOMAIN parsed : At(parsed[i].line, 0) = "\t"}

\* C22: a line that begins with a TAB is parsed as a recipe Command exactly
\* when the most recent rule, assignment, include or define line before it
\* was a rule line, whatever blank lines, comments, conditionals and recipe
\* lines lie in between.
C22_TabLineIsCommandIffAfterRule ==
  \A i \in TabLines :
    (/\ Len(Yielded(parsed[i])) = 1
     /\ Yielded(parsed[i])[1].k = "CommandStmt") <=> AfterRuleLine(i)

\* A recipe line was parsed as a Command with a conditional, a comment or
\* another recipe line between it and its rule.
C22_Witness ==
  \E i \in TabLines :
    /\ AfterRuleLine(i) /\ Kind(parsed[i - 1]) = "other"
    /\ Yielded(parsed[i])[1].k = "CommandStmt"

\* The variables the parsed values are evaluated with: B = v
ParseEnv == (vB :> SimpleVar(<<"v">>))

\* The positions of the escaped newlines of the text s
Continuations(s) ==
  {k \in 1 .. Len(s) - 1 : s[k] = "\\" /\ s[k + 1] = "\n"}

\* The line of h yielded an assignment whose right-hand side has one
\* backslash-newline.
Continued(h) ==
  /\ h.from.defineName = <<>>
  /\ Yielded(h) # <<>>
  /\ Yielded(h)[1].k = "AssignStmt"
  /\ Cardinality(Continuations(Yielded(h)[1].orig_rhs)) = 1

\* The value of the text s, parsed on its own
ValueOf(s) == Eval(ParseEnv, parseExpr(s, "NORMAL").expr)

\* The text before the backslash-newline at k, one space, the text after it
CollapsedAt(s, k) ==
  Spaced(ValueOf(SubSeq(s, 1, k - 1)), ValueOf(SubSeq(s, k + 2, Len(s))))

\* C23: a backslash-newline inside a logical line collapses to one space:
\* the value parsed is the value of the text before it, a space and the
\* value of the text after it, also when a $(...) reference precedes it.
C23_ContinuationIsOneSpace ==
  \A i \in DOMAIN parsed :
    Continued(parsed[i]) =>
      Eval(ParseEnv, Yielded(parsed[i])[1].rhs) =
        CollapsedAt(Yielded(parsed[i])[1].orig_rhs,
                    CHOOSE k \in Continuations(Yielded(parsed[i])[1].orig_rhs) :
                      TRUE)

\* The line starts with the word, blanks before it aside.
StartsWithWord(line, word) ==
  /\ hasPrefix(trimLeftSpace(line), word)
  /\ At(trimLeftSpace(line), Len(word)) \in {"", " ", "\t", "#"}

\* The lines that open a define block
Opens == {i \in DOMAIN parsed : Kind(parsed[i]) = "define"}

\* The define lines less the endef lines among the lines i + 1 .. j
Balance(i, j) ==
  Cardinality({m \in i + 1 .. j : StartsWithWord(parsed[m].line, sDefine)})
  - Cardinality({m \in i + 1 .. j : StartsWithWord(parsed[m].line, sEndef)})

\* Line j is the endef that balances the define of line i.
Closes(i, j) ==
  /\ j > i /\ Balance(i, j) = -1
  /\ \A m \in i + 1 .. j - 1 : Balance(i, m) >= 0

\* The lines between line i and line j, as they are in the makefile
Body(i, j) == JoinLines([m \in 1 .. j - i - 1 |-> parsed[i + m].line])

\* The block that line i opens and line j closes yielded the one assignment
\* of the name to the body.
DefineYielded(i, j) ==
  /\ Len(Yielded(parsed[j])) = 1
  /\ Yielded(parsed[j])[1].k = "AssignStmt"
  /\ Yielded(parsed[j])[1].op = "EQ"
  /\ Yielded(parsed[j])[1].lhs =
       Literal(trimLeftSpace(SubSeq(parsed[i].line, Len(sDefine) + 1,
                                    Len(parsed[i].line))))
  /\ Yielded(parsed[j])[1].orig_rhs = Body(i, j)
  /\ parsed[j].to.defineName = <<>>

\* The last statement of the list parse ended in is the missing endef error.
MissingEndef ==
  /\ ListAt(parser.stmts, parser.outStmts) # <<>>
  /\ LET stmt == ListAt(parser.stmts, parser.outStmts)[
                    Len(ListAt(parser.stmts, parser.outStmts))]
     IN /\ stmt.k = "ParseErrorStmt"
        /\ stmt.msg = "*** missing `endef', unterminated `define'."

\* C24: a define block ends only at the endef that balances its define,
\* nested define/endef pairs being body; it yields exactly one assignment,
\* whose text is the body lines verbatim, comments included; when the
\* makefile ends before that endef, parse reports the missing endef.  (A
\* body the expression parser raises an Error on is the case of C21.)
C24_DefineEndsAtBalancingEndef ==
  \A i \in Opens :
    /\ \A j \in i + 1 .. Len(parsed) :
         IF Closes(i, j)
         THEN parsed[j].to.phase # "thrown" => DefineYielded(i, j)
         ELSE (\A m \in i + 1 .. j : ~Closes(i, m)) =>
                /\ Yielded(parsed[j]) = <<>>
                /\ parsed[j].to.defineName # <<>>
    /\ (parser.phase = "done" /\ \A j \in i + 1 .. Len(parsed) : ~Closes(i, j))
         => MissingEndef

\* A define block with a nested define block and a comment mark in its body
\* was closed by its own endef.
C24_Witness ==
  \E i \in Opens : \E j \in i + 1 .. Len(parsed) :
    /\ Closes(i, j) /\ DefineYielded(i, j)
    /\ \E m \in i + 1 .. j - 1 : StartsWithWord(parsed[m].line, sEndef)
    /\ "#" \in Range(Body(i, j))

(***************************************************************************)
(* The functions on the variables of a makefile.                           *)
(***************************************************************************)
vV == <<"V">>
vW == <<"W">>
vf == <<"f">>
vg == <<"g">>
v1 == <<"1">>
vv == <<"v">>
\* $(B c), the call of a function that is none
UnknownCall == Func(vB, <<Literal(<<"c">>)>>)

\* B := v, V = $(B), W = x, f = $(1)$(v), g = $(B c)
FuncGlobals ==
  (vB :> SimpleVar(<<"v">>)) @@
  (vV :> RecursiveVar(SymRef(vB), <<"$", "(", "B", ")">>)) @@
  (vW :> RecursiveVar(Literal(<<"x">>), <<"x">>)) @@
  (vf :> RecursiveVar(ValueList(<<SymRef(v1), SymRef(vv)>>),
                      <<"$", "(", "1", ")", "$", "(", "v", ")">>)) @@
  (vg :> RecursiveVar(UnknownCall, <<"$", "(", "B", " ", "c", ")">>))

\* The same, and with 1 := p and v := q
FuncEnvs ==
  {FuncGlobals,
   (v1 :> SimpleVar(<<"p">>)) @@ (vv :> SimpleVar(<<"q">>)) @@ FuncGlobals}

Call(args) == Func(sCall, args)
Foreach(varname, list, expr) == Func(sForeach, <<varname, list, expr>>)

\* $(call f,a), $(call f,a,$(B)), $(call  f ,a), $(call g,a), $(call h,a),
\* $(call f,$(B c)), $(call f,$(call g,a)), $(call f,$(call f,a))
CallExprs ==
  {Call(<<Literal(vf), Literal(<<"a">>)>>),
   Call(<<Literal(vf), Literal(<<"a">>), SymRef(vB)>>),
   Call(<<Literal(<<" ", "f", " ">>), Literal(<<"a">>)>>),
   Call(<<Literal(vg), Literal(<<"a">>)>>),
   Call(<<Literal(<<"h">>), Literal(<<"a">>)>>),
   Call(<<Literal(vf), UnknownCall>>),
   Call(<<Literal(vf), Call(<<Literal(vg), Literal(<<"a">>)>>)>>),
   Call(<<Literal(vf), Call(<<Literal(vf), Literal(<<"a">>)>>)>>)}

\* $(foreach v,a b,$(v)), $(foreach v,a b,$(B c)), $(foreach v,,$(B c)),
\* $(foreach 1,a,$(1)$(v)), $(foreach v,a b,$(call f,$(v))),
\* $(foreach v,a b,$(call g,$(v)))
ForeachExprs ==
  {Foreach(Literal(vv), Literal(<<"a", " ", "b">>), SymRef(vv)),
   Foreach(Literal(vv), Literal(<<"a", " ", "b">>), UnknownCall),
   Foreach(Literal(vv), Literal(<<>>), UnknownCall),
   Foreach(Literal(v1), Literal(<<"a">>),
           ValueList(<<SymRef(v1), SymRef(vv)>>)),
   Foreach(Literal(vv), Literal(<<"a", " ", "b">>),
           Call(<<Literal(vf), SymRef(vv)>>)),
   Foreach(Literal(vv), Literal(<<"a", " ", "b">>),
           Call(<<Literal(vg), SymRef(vv)>>))}

\* $(value V), $(value W), $(value B), $(value U), $(value $(B c))
ValueExprs ==
  {Func(sValue, <<Literal(name)>>) : name \in {vV, vW, vB, <<"U">>}}
  \cup {Func(sValue, <<UnknownCall>>)}

Patterns ==
  {<<"%">>, <<"a", "%">>, <<"%", "a">>, <<"a", "%", "a">>, <<"a">>,
   <<"b", "%", "a">>}
Texts ==
  {<<>>, <<"a">>, <<"a", "b", " ", "a">>,
   <<" ", "a", "b", "a", " ", " ", "b", "\t">>,
   <<"a", "a", " ", "b", "a">>}

\* $(patsubst pat,repl,text)
PatsubstExprs ==
  {Func(sPatsubst, <<Literal(pat), Literal(repl), Literal(text)>>) :
     pat \in Patterns, repl \in Patterns, text \in Texts}

Numbers ==
  {<<"0">>, <<"1">>, <<"2">>, <<" ", "1">>, <<"x">>, <<"-", "1">>,
   <<"2", "x">>, <<"+", "1">>, <<"1", "e", "1">>}
Lists == {<<>>, <<"a", " ", "b", " ", " ", "c">>}

\* $(wordlist s,e,text)
WordlistExprs ==
  {Func(sWordlist, <<Literal(s), Literal(e), Literal(text)>>) :
     s \in Numbers, e \in Numbers, text \in Lists}

\* $(word n,text)
WordExprs ==
  {Func(sWord, <<Literal(n), Literal(text)>>) : n \in Numbers, text \in Lists}

InitFunc ==
  /\ env \in FuncEnvs
  /\ scopes = <<>>
  /\ applied = <<>>
  /\ isSilentMode = FALSE
  /\ phase = "func"
  /\ parser = [phase |-> "none"]
  /\ parsed = <<>>
  /\ rules = <<>>
  /\ targets = <<>>
  /\ fs = <<>>
  /\ error = ""
  /\ nodes = <<>>
  /\ roots = <<>>
  /\ rootIdx = 1
  /\ done_ = <<>>
  /\ stack = <<>>
  /\ num_commands_ = 0
  /\ log = <<>>
  /\ last = NoStmt
  /\ prev = <<>>
  /\ executed = <<>>
  /\ assigned = <<>>
  /\ appended = <<>>
  /\ finals = <<>>
  /\ nstmts = 0

\* The scopes of the Evaluator, the global variables at the bottom
Scopes == <<env>> \o scopes

\* The state after func.eval(ev), r being what it left
Applied(func, r) ==
  /\ applied' = [func |-> func, before |-> scopes, result |-> r.result]
  /\ scopes' = Tail(r.scopes)
  /\ UNCHANGED <<phase, error, execVars, env, last, prev, executed, assigned,
                 appended, finals, nstmts, parseVars, flagVars>>

\* func.eval(ev) at the top of an expression
FuncApplied(func) ==
  Applied(func, FuncEvalScoped(Scopes, func,
                               Cardinality(DOMAIN Flatten(Scopes)) + 1))

ApplyCall == phase = "func" /\ \E func \in CallExprs : FuncApplied(func)
ApplyForeach == phase = "func" /\ \E func \in ForeachExprs : FuncApplied(func)
ApplyValue == phase = "func" /\ \E func \in ValueExprs : FuncApplied(func)
ApplyPatsubst ==
  phase = "func" /\ \E func \in PatsubstExprs : FuncApplied(func)
ApplyWordlist ==
  phase = "func" /\ \E func \in WordlistExprs : FuncApplied(func)
ApplyWord == phase = "func" /\ \E func \in WordExprs : FuncApplied(func)

NextFunc ==
  \/ ApplyCall
  \/ ApplyForeach
  \/ ApplyValue
  \/ ApplyPatsubst
  \/ ApplyWordlist
  \/ ApplyWord

SpecFunc == InitFunc /\ [][NextFunc]_vars

(***************************************************************************)
(* Claims about the parser and the functions.                              *)
(***************************************************************************)
\* The text is $(name rest), name and rest without a reference.
IsNameRest(text) ==
  /\ Len(text) > 5 /\ hasPrefix(text, <<"$", "(">>) /\ hasSuffix(text, <<")">>)
  /\ \A i \in 3 .. Len(text) - 1 : text[i] \notin {"$", "(", ")", ":"}
  /\ \E i \in 4 .. Len(text) - 2 : text[i] = " "
  /\ text[3] # " "

\* The name of $(name rest), and all of the text between the parentheses
NameOf(text) == SubSeq(text, 3, IndexOf(text, " ") - 1)
NameRestOf(text) == SubSeq(text, 3, Len(text) - 1)

\* Variables for the value of $(name rest): none, and one called "B c"
NameRestEnvs == {<<>>, (<<"B", " ", "c">> :> SimpleVar(<<"w">>)) @@ ParseEnv}

\* The assignments a line yielded whose right-hand side is $(name rest)
NameRestAssigned(h) ==
  {i \in DOMAIN Yielded(h) :
     /\ Yielded(h)[i].k = "AssignStmt"
     /\ IsNameRest(Yielded(h)[i].orig_rhs)}

\* C25: $(name rest) is a function call only if name is in the function
\* registry; with a name that is not, it is a reference to the variable
\* called "name rest" and evaluates to the value of that variable, to
\* nothing if there is none.
C25_CallOnlyOfRegisteredFunction ==
  \A n \in DOMAIN parsed : \A i \in NameRestAssigned(parsed[n]) :
    LET stmt == Yielded(parsed[n])[i] IN
    /\ stmt.rhs.k = "Func" => isRegistered(stmt.rhs.name)
    /\ ~isRegistered(NameOf(stmt.orig_rhs)) =>
         \A vs \in NameRestEnvs :
           Eval(vs, stmt.rhs) = Eval(vs, SymRef(NameRestOf(stmt.orig_rhs)))

\* C27: with the silent-mode flag set no command is echoed before it runs,
\* whether or not it has an '@' prefix.
C27_SilentModeEchoesNothing ==
  isSilentMode => \A i \in DOMAIN log : log[i].t = "run" => ~log[i].echoed

\* The function evaluated last is the one called name.
AppliedIs(name) == applied # <<>> /\ applied.func.name = name

\* The names the scope of the call evaluated last binds: 0 .. n of a call
\* of n arguments, the loop variable of a foreach
BoundNames ==
  IF applied.func.name = sCall
  THEN {NumStr(i) : i \in 0 .. Len(applied.func.args) - 1}
  ELSE {applied.func.args[1].s}

\* What the name resolves to on the scopes
Resolved(scopes_, name) == lookupVar(Flatten(<<env>> \o scopes_), name)

\* C26: after $(call f,args) or $(foreach v,list,body), finished by a return
\* or by an error raised inside it, the scope stack has the depth it had
\* before, and the names 0..n of the call, or v of the foreach, resolve to
\* what they resolved to before.
C26_ScopePoppedOnAllExitPaths ==
  (AppliedIs(sCall) \/ AppliedIs(sForeach)) =>
    /\ Len(scopes) = Len(applied.before)
    /\ \A name \in BoundNames :
         Resolved(scopes, name) = Resolved(applied.before, name)

\* A call whose parameter 1 hides a global variable 1 ended by an error
\* raised in the body of the function.
C26_Witness ==
  /\ AppliedIs(sCall) /\ ~applied.result.ok
  /\ Len(applied.func.args) = 2
  /\ applied.func.args[1] = Literal(vg)
  /\ isDefined(Resolved(scopes, v1))

\* C28: for a recursive variable V defined with the text T, $(value V)
\* returns T itself, unexpanded, also when T refers to other variables.
C28_ValueReturnsTextUnexpanded ==
  (/\ AppliedIs(sValue) /\ applied.func.args[1].k = "Literal"
   /\ Resolved(applied.before, applied.func.args[1].s).flavor = "recursive")
  => applied.result =
       Returned(Resolved(applied.before, applied.func.args[1].s).orig)

\* C29: patsubst(P,P,T) returns the words of T unchanged, joined by single
\* spaces, the empty words dropped, also for words shorter than the prefix
\* and the suffix of P around % together.
C29_PatsubstSamePatternIsIdentity ==
  (AppliedIs(sPatsubst) /\ applied.func.args[1] = applied.func.args[2])
  => applied.result = Returned(JoinSpace(splitSpace(applied.func.args[3].s)))

\* The first and the second argument of the wordlist evaluated last
FirstIs(n) == getNumericValueForFunc(applied.func.args[1].s) = n
SecondIs(n) == getNumericValueForFunc(applied.func.args[2].s) = n

\* C30 as the specification has it: $(wordlist 1,0,text) fails instead of
\* returning a value.
C30_WordlistOneZeroFails ==
  (AppliedIs(sWordlist) /\ FirstIs(1) /\ SecondIs(0)) => ~applied.result.ok

\* C30: wordlist with first argument 0 is an error: $(wordlist 0,e,text)
\* fails instead of returning a value; $(wordlist 1,0,text) returns the
\* empty string.
C30_WordlistZeroFirstFails ==
  AppliedIs(sWordlist) =>
    /\ FirstIs(0) => ~applied.result.ok
    /\ (FirstIs(1) /\ SecondIs(0)) => applied.result = Returned(<<>>)

\* $(wordlist 0,2,a b  c) failed.
C30_Witness ==
  /\ AppliedIs(sWordlist) /\ FirstIs(0) /\ SecondIs(2)
  /\ applied.func.args[3].s # <<>>
  /\ ~applied.result.ok

\* After its leading blanks the text is decimal digits and nothing else.
DecimalOnly(str) ==
  /\ trimLeftSpace(str) # <<>>
  /\ \A c \in Range(trimLeftSpace(str)) : c \in Range(DigitChars)

\* The numeric arguments of the word or wordlist evaluated last
NumericArgs ==
  IF applied.func.name = sWord THEN {applied.func.args[1].s}
  ELSE {applied.func.args[1].s, applied.func.args[2].s}

\* C31: word and wordlist fail on a numeric argument that, after leading
\* white space, is not decimal digits only: a non-digit tail, a leading '+'
\* or an exponent is an error, never read as the number it starts with.
C31_NumbersAreDecimalDigitsOnly ==
  ((AppliedIs(sWord) \/ AppliedIs(sWordlist))
   /\ \E str \in NumericArgs : ~DecimalOnly(str))
  => ~applied.result.ok

\* The inputs of the edges of the node of n
EdgesOf(n) ==
  Range(nodes[n].deps) \cup Range(nodes[n].order_onlys)
  \cup Range(nodes[n].validations)

\* C32: build makes at most one DepNode per output symbol: a request for a
\* symbol already seen, as a repeated target or as a dependency reached
\* along several paths, gets the memoised node, which is filled once.
C32_OneDepNodePerOutput ==
  phase = "exec" =>
    /\ \A o \in DOMAIN nodes :
         /\ nodes[o].output = o /\ nodes[o].created = 1
         /\ EdgesOf(o) \subseteq DOMAIN nodes
    /\ Range(roots) \subseteq DOMAIN nodes

\* a was requested twice as a target, and d is a dependency of a and of b.
C32_Witness ==
  /\ phase = "exec" /\ roots = <<sA, sA>>
  /\ sD \in Range(nodes[sA].deps) /\ sB \in Range(nodes[sA].deps)
  /\ sD \in Range(nodes[sB].deps)
  /\ nodes[sD].created = 1

\* The nodes reached from the nodes of from by one edge or more, within
\* steps more edges
RECURSIVE ReachedFrom(_, _)
ReachedFrom(from, steps) ==
  IF steps = 0 THEN from
  ELSE ReachedFrom(from \cup UNION {EdgesOf(n) : n \in from}, steps - 1)

\* Following the edges from n leads back to n.
OnCycle(n) == n \in ReachedFrom(EdgesOf(n), Cardinality(DOMAIN nodes))

\* C33: back edges are not stored in the dependency graph: when the rules
\* have a cycle, following deps, order_onlys or validations edges in the
\* graph build returns never leads back to a node already on the path.
C33_NoBackEdgesStored ==
  phase = "exec" => \A n \in DOMAIN nodes : ~OnCycle(n)

\* Executor.exec: the steps of the loop over the roots and of the execNode
\* calls under it
Exec ==
  \/ StartRoot
  \/ OrderOnlySkip
  \/ OrderOnlyExec
  \/ OrderOnlyDone
  \/ DepExec
  \/ SkipCommands
  \/ EvalCommands
  \/ RunCommand
  \/ FinishNode
  \/ ExecDone

\* The executor under its scheduling: exec is one synchronous call, so a
\* step of it that can be taken is taken.
SpecLive == Init /\ [][Next]_vars /\ WF_vars(Exec)

\* the nodes of the frames of the traversal path
OnPath == { stack[i].n : i \in DOMAIN stack }
\* a call found the PROCESSING sentinel ("Circular ... dependency dropped")
CircularWarned(e) == e.t = "memo" /\ e.ts = kProcessing
\* exec returned or threw
Finished == phase \in {"done", "failed"}

\* C34: a cycle of the rule graph neither aborts nor hangs the executor. A
\* call on a node whose memo entry is the PROCESSING sentinel returns at once
\* with the warning, so no node is entered twice and no node is twice on the
\* traversal path; exec terminates, and when it returns every memo entry is
\* a final time stamp, the sentinel being replaced.
C34_CycleDoesNotHang ==
  /\ [](/\ \A i, j \in DOMAIN stack : stack[i].n = stack[j].n => i = j
        /\ \A i, j \in DOMAIN log :
             (log[i].t = "ExecNode" /\ log[j].t = "ExecNode"
              /\ log[i].n = log[j].n) => i = j
        /\ \A i \in DOMAIN log :
             CircularWarned(log[i]) =>
               i > 1 /\ log[i - 1].t = "call" /\ log[i - 1].n = log[i].n
        /\ phase = "done" => \A n \in DOMAIN done_ : done_[n] # kProcessing)
  /\ (phase = "exec") ~> Finished
\* exec returned after a call had met the sentinel of a cycle
C34_Witness ==
  /\ phase = "done"
  /\ \E i \in DOMAIN log : CircularWarned(log[i])
  /\ \E n \in DOMAIN done_ : done_[n] # kProcessing

\* C35: the executor reports a circular dependency only for a real cycle.
\* A memo entry holds the PROCESSING sentinel only while its node is on the
\* traversal path, so a call that has just returned from the memo carried
\* the warning exactly when its node is one of its own ancestors; a node
\* reached again through another parent returned the time stamp recorded for
\* it. The async variant awaits each dependency and each command before the
\* next one, which gives it the steps taken here in the same order.
C35_CycleOnlyForAncestors ==
  /\ phase = "exec" =>
       \A n \in DOMAIN done_ : done_[n] = kProcessing <=> n \in OnPath
  /\ \A i \in DOMAIN log :
       (log[i].t = "memo" /\ i = Len(log)) =>
         /\ CircularWarned(log[i]) <=> log[i].n \in OnPath
         /\ log[i].ts = done_[log[i].n]
\* d of "all: a | b d   b: d" was reached again, from another parent, and
\* the call returned its time stamp
C35_Witness ==
  \E i \in DOMAIN log :
    /\ log[i].t = "memo" /\ i = Len(log)
    /\ ~CircularWarned(log[i])
    /\ log[i].n \notin OnPath
    /\ \E j \in 1..(i - 1) :
         /\ log[j].t = "call" /\ log[j].n = log[i].n
         /\ log[j].neededBy # log[i].neededBy
         /\ log[j + 1].t = "ExecNode"

\* The inputs of the rules of S from the i-th rule of the makefile on, rule
\* after rule.
RECURSIVE InputsFrom(_, _)
InputsFrom(i, S) ==
  IF i > Len(rules) THEN <<>>
  ELSE (IF i \in S THEN rules[i].inputs ELSE <<>>) \o InputsFrom(i + 1, S)

\* The graph holds a node for the single-colon target o, which some rule
\* without commands declares; o is not the name of a suffix rule.
MergedNode(o) ==
  /\ phase = "exec"
  /\ o \in DOMAIN nodes
  /\ ~isSuffixRule(o)
  /\ \A i \in RulesOf(o) : ~rules[i].is_double_colon
  /\ RulesOf(o) \ WithCmds(o) # {}

\* The rules of o that are the primary rule: the last one with commands.
PrimaryOf(o) == IF WithCmds(o) = {} THEN {} ELSE {LastOf(WithCmds(o))}

\* C36 as stated: in the node of a single-colon target, the rules without
\* commands add no commands, and the inputs of the rules other than the
\* primary rule come before the inputs of the primary rule, in the order the
\* rules were encountered.
C36_OtherInputsBeforePrimary ==
  \A o \in DeclaredOutputs :
    MergedNode(o) =>
      /\ nodes[o].cmds = (IF PrimaryOf(o) = {} THEN <<>>
                          ELSE rules[LastOf(WithCmds(o))].cmds)
      /\ nodes[o].actual_inputs =
           InputsFrom(1, RulesOf(o) \ PrimaryOf(o))
             \o InputsFrom(1, PrimaryOf(o))

\* C36 amended: the same, the inputs of the other rules coming after the
\* inputs of the primary rule.
C36_OtherInputsAfterPrimary ==
  \A o \in DeclaredOutputs :
    MergedNode(o) =>
      /\ nodes[o].cmds = (IF PrimaryOf(o) = {} THEN <<>>
                          ELSE rules[LastOf(WithCmds(o))].cmds)
      /\ nodes[o].actual_inputs =
           InputsFrom(1, PrimaryOf(o))
             \o InputsFrom(1, RulesOf(o) \ PrimaryOf(o))

\* a: b, then b a: d with two recipe lines, then a: d: the node of a has the
\* two recipe lines and the inputs d, b, d.
C36_Witness ==
  /\ MergedNode(sA)
  /\ Len(rules) = 3
  /\ rules[1].cmds = <<>> /\ rules[1].inputs = <<sB>>
  /\ PrimaryOf(sA) = {2}
  /\ rules[3].cmds = <<>> /\ rules[3].inputs = <<sD>>
  /\ nodes[sA].cmds = <<Cmd(2, 1), Cmd(2, 2)>>
  /\ nodes[sA].actual_inputs = <<sD, sB, sD>>

\* The recipe lines of node n that the log records as run.
RunsOf(n) == { i \in DOMAIN log : log[i].t = "run" /\ log[i].n = n }

\* C37: during one exec run the commands of each node are run at most once,
\* however many parents depend on the node and however many roots reach it,
\* in whatever order: a node is evaluated for its commands at most once and
\* no recipe line of it is run twice.
C37_CommandsRunAtMostOnce ==
  \A i, j \in DOMAIN log :
    /\ (log[i].t = "eval" /\ log[j].t = "eval" /\ log[i].n = log[j].n)
         => i = j
    /\ (i \in RunsOf(log[j].n) /\ j \in RunsOf(log[i].n)
         /\ log[i].i = log[j].i) => i = j
\* two roots were given and exec returned; the commands of some node were
\* run, and the node was called both as a root and as a dependency
C37_Witness ==
  /\ phase = "done" /\ Len(roots) = 2
  /\ \E n \in DOMAIN nodes :
       /\ RunsOf(n) # {}
       /\ \E i, j \in DOMAIN log :
            /\ log[i].t = "call" /\ log[i].n = n /\ log[i].edge = "root"
            /\ log[j].t = "call" /\ log[j].n = n /\ log[j].edge = "dep"

\* Some recipe line of node d was run before the k-th entry of the log.
RanBefore(d, k) == \E i \in RunsOf(d) : i < k

\* C38: a node that is not phony and has a regular dependency whose commands
\* were run earlier in this build is not skipped as up to date, whether or
\* not its file exists: its own commands are evaluated and run.
C38_RebuiltDependencyRebuildsDependent ==
  \A k \in DOMAIN log :
    (/\ log[k].t = "skip"
     /\ ~nodes[log[k].n].is_phony)
      => \A d \in Range(nodes[log[k].n].deps) : ~RanBefore(d, k)

(***************************************************************************)
(* The parser on makefiles of conditionals.                                *)
(***************************************************************************)
\* else
cElse == sElse
\* else ifdef A
cElseIfdef == sElse \o <<" ">> \o cIfdef

CondChunks == {cIfdef, cElse, cElseIfdef, cEndif, cAssign}

CondBuffers ==
  { JoinLines(chunks) :
      chunks \in UNION {[1 .. n -> CondChunks] : n \in 0 .. MaxLines + 2} }

InitCond == InitParseOf(CondBuffers)

SpecCond == InitCond /\ [][NextParse]_vars

\* The list of the innermost open conditional of Parser p: true_stmts before
\* its else, false_stmts after it; the top-level list when none is open.
Innermost(p) ==
  IF p.ifStack = <<>> THEN <<>> ELSE BranchOf(p.ifStack[Len(p.ifStack)])

\* list is the list was with one more statement at its end
Grown(was, list) ==
  Len(list) = Len(was) + 1 /\ SubSeq(list, 1, Len(was)) = was

\* The plain if and the endif lines parsed after line j and before line k.
IfsBetween(j, k) ==
  { i \in (j + 1) .. (k - 1) : hasPrefix(parsed[i].line, <<"i", "f">>) }
EndifsBetween(j, k) ==
  { i \in (j + 1) .. (k - 1) : parsed[i].line = sEndif }

\* Line j is the if that the endif of line k closes: the last plain if
\* before it that the lines between leave open.
OpenedBy(j, k) ==
  /\ j < k
  /\ hasPrefix(parsed[j].line, <<"i", "f">>)
  /\ Cardinality(IfsBetween(j, k)) = Cardinality(EndifsBetween(j, k))
  /\ \A i \in (j + 1) .. (k - 1) :
       hasPrefix(parsed[i].line, <<"i", "f">>) =>
         Cardinality(IfsBetween(i, k)) < Cardinality(EndifsBetween(i, k))

\* C39: at every line the current list is that of the innermost open
\* conditional (true_stmts before its else, false_stmts after it) or the
\* top-level list; the statement of a line is appended to it, the
\* conditional of an "else if" line to the false_stmts its else has just
\* selected; and after an endif, also the one endif of a whole "else if"
\* chain, the current list is the one that was current before the closed
\* conditional was opened.
C39_StatementsGoToInnermostBranch ==
  \A k \in DOMAIN parsed :
    LET f == parsed[k].from
        t == parsed[k].to
        line == parsed[k].line
    IN /\ f.outStmts = Innermost(f)
       /\ t.outStmts = Innermost(t)
       /\ (t.stmts # f.stmts /\ ~hasPrefix(line, sElse)) =>
            Grown(ListAt(f.stmts, f.outStmts), ListAt(t.stmts, f.outStmts))
       /\ (hasPrefix(line, sElse) /\ f.ifStack # <<>>
           /\ ~f.ifStack[Len(f.ifStack)].isInElse) =>
            LET st == f.ifStack[Len(f.ifStack)]
                else == Append(st.at[1], <<st.at[2], "false_stmts">>)
            IN IF line = cElse THEN t.outStmts = else
               ELSE /\ Grown(ListAt(f.stmts, else), ListAt(t.stmts, else))
                    /\ t.outStmts =
                         Append(else, <<Len(ListAt(t.stmts, else)), "true_stmts">>)
       /\ (line = sEndif /\ f.ifStack # <<>>) =>
            \E j \in 1 .. (k - 1) :
              OpenedBy(j, k) /\ t.outStmts = parsed[j].from.outStmts
\* ifdef A, else ifdef A, endif, A = x: the endif closed both conditionals
\* of the chain and the assignment went to the top-level list
C39_Witness ==
  /\ Len(parsed) >= 4
  /\ parsed[1].line = cIfdef
  /\ parsed[2].line = cElseIfdef
  /\ parsed[3].line = sEndif
  /\ Len(parsed[3].from.ifStack) = 2 /\ parsed[3].to.ifStack = <<>>
  /\ parsed[4].line = cAssign
  /\ Len(parsed[4].to.stmts) = 2

(***************************************************************************)
(* The rules of a parsed makefile: RuleStmt.eval on the statements the     *)
(* parser made.                                                            *)
(***************************************************************************)
\* "target.includes('%')" for some target
isPatternRule(targetStrings) ==
  \E i \in DOMAIN targetStrings : IndexOf(targetStrings[i], "%") # 0

\* RuleStmt.eval from "Check for double colon rules" to "Create Rule
\* object": the rule of the targets and of what follows their colon
RuleOfTargets(id, targetStrings, afterTargets, cmds) ==
  LET isDoubleColon == hasPrefix(afterTargets, <<":">>)
      remainingAfterTargets ==
        IF isDoubleColon THEN Tail(afterTargets) ELSE afterTargets
      pipePos == IndexOf(remainingAfterTargets, "|")
      prereqString ==
        IF pipePos # 0 THEN SubSeq(remainingAfterTargets, 1, pipePos - 1)
        ELSE remainingAfterTargets
      orderOnlyInputs ==
        IF pipePos # 0
        THEN splitSpace(SubstringFrom(remainingAfterTargets, pipePos + 1))
        ELSE <<>>
  IN Rule(id,
          IF isPatternRule(targetStrings) THEN <<>> ELSE targetStrings,
          splitSpace(prereqString), orderOnlyInputs,
          IF isPatternRule(targetStrings) THEN targetStrings ELSE <<>>,
          cmds, isDoubleColon)

\* RuleStmt.eval after "const beforeTerm = this.lhs.eval(ev)", command being
\* the evaluated inline recipe; ev.error throws
RuleStmtEvalOf(rls, stmt, beforeTerm, command) ==
  IF ~beforeTerm.ok THEN Declaring(FALSE, rls)
  ELSE IF Range(beforeTerm.s) \subseteq SpaceChars \cup {";"}
       THEN Declaring(stmt.sep # "SEMICOLON", rls)
  ELSE IF IndexOf(beforeTerm.s, ":") = 0 THEN Declaring(FALSE, rls)
  ELSE IF splitSpace(SubSeq(beforeTerm.s, 1, IndexOf(beforeTerm.s, ":") - 1))
            = <<>>
       THEN Declaring(FALSE, rls)
  ELSE IF ~command.ok THEN Declaring(FALSE, rls)
  ELSE Declaring(TRUE,
         Append(rls,
           RuleOfTargets(
             Len(rls) + 1,
             splitSpace(SubSeq(beforeTerm.s, 1, IndexOf(beforeTerm.s, ":") - 1)),
             SubstringFrom(beforeTerm.s, IndexOf(beforeTerm.s, ":") + 1),
             IF stmt.sep = "SEMICOLON" /\ stmt.rhs # NullExpr
             THEN <<command.s>> ELSE <<>>)))

\* RuleStmt.eval of a statement of the parser
ParsedRuleStmtEval(vs, rls, stmt) ==
  RuleStmtEvalOf(rls, stmt, Eval(vs, stmt.lhs),
                 IF stmt.sep = "SEMICOLON" /\ stmt.rhs # NullExpr
                 THEN Eval(vs, stmt.rhs) ELSE Returned(<<>>))

\* "for (const stmt of stmts) stmt.eval(ev)" on rule, recipe and
\* parse-error statements; res is what the statements before left
RECURSIVE RuleStmtsEval(_, _, _)
RuleStmtsEval(vs, res, stmts) ==
  IF stmts = <<>> \/ ~res.ok THEN res
  ELSE RuleStmtsEval(
         vs,
         IF Head(stmts).k = "RuleStmt"
         THEN ParsedRuleStmtEval(vs, res.rules, Head(stmts))
         ELSE IF Head(stmts).k = "CommandStmt"
         THEN CommandStmtEval(vs, res.rules, Head(stmts), Head(stmts).lineno)
         ELSE Declaring(FALSE, res.rules),
         Tail(stmts))

\* a: A = x
cTargetVar == <<"a", ":", " ", "A", " ", "=", " ", "x">>
\* a:: b
cDoubleColon == <<"a", ":", ":", " ", "b">>
\* b: a | d
cOrderOnly == <<"b", ":", " ", "a", " ", "|", " ", "d">>
\* a
cNoSeparator == <<"a">>

RuleChunks ==
  {cRule, cTargetVar, cRecipe, cDoubleColon, cOrderOnly, cNoSeparator}

RuleBuffers ==
  { JoinLines(chunks) :
      chunks \in UNION {[1 .. n -> RuleChunks] : n \in 0 .. MaxLines} }

InitRule == InitParseOf(RuleBuffers)

\* The statements of the parsed makefile are evaluated.
EvalMakefile ==
  /\ phase = "parse" /\ parser.phase = "done"
  /\ LET res == RuleStmtsEval(env, Declaring(TRUE, <<>>), parser.stmts)
     IN /\ rules' = res.rules
        /\ phase' = IF res.ok THEN "evaluated" ELSE "failed"
  /\ UNCHANGED <<evalVars, targets, fs, error, nodes, roots, rootIdx, done_,
                 stack, num_commands_, log>>

NextRule ==
  \/ ParseLine
  \/ ParseEnd
  \/ EvalMakefile

SpecRule == InitRule /\ [][NextRule]_vars

\* The place among rules of the rule that the k-th statement declared.
RuleOfStmt(k) ==
  Cardinality({ i \in 1 .. k : parser.stmts[i].k = "RuleStmt" })

\* C40: a target-specific variable line "target: VAR = value" adds nothing
\* to the prerequisites of the target: evaluating its statement records no
\* input or order-only input named after VAR, "=" or value, and no target
\* besides the one the line names.
C40_TargetVarAddsNoPrerequisite ==
  phase = "evaluated" =>
    \A k \in DOMAIN parser.stmts :
      (parser.stmts[k].k = "RuleStmt" /\ parser.stmts[k].sep = "EQ") =>
        LET rule == rules[RuleOfStmt(k)]
        IN /\ Range(rule.inputs) \cap {<<"A">>, <<"=">>, <<"x">>} = {}
           /\ Range(rule.order_only_inputs)
                \cap {<<"A">>, <<"=">>, <<"x">>} = {}
           /\ Range(rule.outputs) \subseteq {<<"a">>}

====
